---- MODULE Spec2Model ----
(***************************************************************************)
(* State-machine model of the retrieval and dialogue core of the Kenyan    *)
(* real-estate agent (src/app/agent_simple.py): the text chunker, the      *)
(* lexical knowledge base (load_documents / search), the per-conversation  *)
(* history kept by process_query, and respond_and_recommend_properties.    *)
(* Texts are sequences of one-character strings; scores are exact          *)
(* fractions <<numerator, denominator>>; confidences are hundredths.       *)
(***************************************************************************)
EXTENDS Integers, Sequences, FiniteSets, TLC

VARIABLES
    fs,             \* the corpus source on disk: [root, files]
    catalog,        \* which of Catalogs properties_data.json is
    documents,      \* SimpleKnowledgeBase.documents
    loaded,         \* SimpleKnowledgeBase.loaded
    kbop,           \* the last knowledge-base call and what it observed/returned
    conversations,  \* SimpleRealEstateAgent.conversations: id -> list object (0 = no key)
    lists,          \* the list objects the conversations and the in-flight turns refer to
    task,           \* one frame per in-flight coroutine of the agent
    ret,            \* what each caller last got back
    log,            \* per conversation id: the turns completed so far (history variable)
    started,        \* number of calls started so far
    sp,             \* the frame of one _split_text call
    fn              \* the frame of one helper called on its own: its arguments and result

vars == <<fs, catalog, documents, loaded, kbop, conversations, lists, task, ret, log, started, sp, fn>>

kbVars == <<fs, documents, loaded, kbop>>
agentVars == <<conversations, lists, task, ret, log, started>>

-----------------------------------------------------------------------------
(* Bounds of the model *)

MaxTextLen == 4

MaxCalls == 2

MaxSeqTurns == 6

\* calls made in the run that exercises both handlers
MaxRecCalls == 1

\* listings handed to the selection step
MaxListings == 4

\* turns of the session that clears its conversation
MaxSessionTurns == 3

\* turns two clients start between them on one conversation
MaxRaceTurns == 7

-----------------------------------------------------------------------------
(* Text primitives (Python str operations used by the code) *)

Min(a, b) == IF a < b THEN a ELSE b

Max(a, b) == IF a > b THEN a ELSE b

UpperCase ==
    {"A","B","C","D","E","F","G","H","I","J","K","L","M",
     "N","O","P","Q","R","S","T","U","V","W","X","Y","Z"}

LowerCase ==
    {"a","b","c","d","e","f","g","h","i","j","k","l","m",
     "n","o","p","q","r","s","t","u","v","w","x","y","z"}

Digits == {"0","1","2","3","4","5","6","7","8","9"}

\* the lower-case form of each upper-case letter
LowerOf ==
    "A" :> "a" @@ "B" :> "b" @@ "C" :> "c" @@ "D" :> "d" @@ "E" :> "e" @@ "F" :> "f" @@
    "G" :> "g" @@ "H" :> "h" @@ "I" :> "i" @@ "J" :> "j" @@ "K" :> "k" @@ "L" :> "l" @@
    "M" :> "m" @@ "N" :> "n" @@ "O" :> "o" @@ "P" :> "p" @@ "Q" :> "q" @@ "R" :> "r" @@
    "S" :> "s" @@ "T" :> "t" @@ "U" :> "u" @@ "V" :> "v" @@ "W" :> "w" @@ "X" :> "x" @@
    "Y" :> "y" @@ "Z" :> "z"

\* str.lower() on one character
LowerChar(c) == IF c \in UpperCase THEN LowerOf[c] ELSE c

\* str.lower()
Lower(s) == [i \in 1..Len(s) |-> LowerChar(s[i])]

\* the regex class \w
IsWordChar(c) == c \in UpperCase \cup LowerCase \cup Digits \cup {"_"}

\* the characters str.strip() removes
IsSpace(c) == c \in {" ", "\n", "\t", "\r"}

\* text[start:end] with Python's slice semantics (0-based, negative from the end, clamped)
PySlice(s, start, end) ==
    LET n == Len(s)
        a == IF start < 0 THEN Max(n + start, 0) ELSE Min(start, n)
        b == IF end < 0 THEN Max(n + end, 0) ELSE Min(end, n)
    IN  IF a >= b THEN <<>> ELSE SubSeq(s, a + 1, b)

\* text[j] (0-based, negative from the end)
PyAt(s, j) == IF j >= 0 THEN s[j + 1] ELSE s[Len(s) + j + 1]

\* str.strip()
Strip(s) ==
    LET keep == {i \in 1..Len(s) : ~IsSpace(s[i])}
    IN  IF keep = {} THEN <<>>
        ELSE SubSeq(s, CHOOSE i \in keep : \A j \in keep : i <= j,
                       CHOOSE i \in keep : \A j \in keep : i >= j)

\* one scan for the maximal runs of word characters: `cur` is the run being read
RECURSIVE ScanWords(_, _, _, _)
ScanWords(s, i, cur, acc) ==
    LET closed == IF cur = <<>> THEN acc ELSE acc \cup {cur}
    IN  IF i > Len(s) THEN closed
        ELSE IF IsWordChar(s[i]) THEN ScanWords(s, i + 1, Append(cur, s[i]), acc)
        ELSE ScanWords(s, i + 1, <<>>, closed)

\* set(re.findall(r'\b\w+\b', s))
FindWords(s) == ScanWords(s, 1, <<>>, {})

-----------------------------------------------------------------------------
(* Text chunker: SimpleKnowledgeBase._split_text *)

CHUNK_SIZE == 1000

CHUNK_OVERLAP == 200

BACK_WINDOW == 100

\* the cut `end` of the window that starts at `start` (lines 140-147)
SplitEnd(text, chunk_size, overlap, start) ==
    LET end0 == start + chunk_size
        hits == {i \in 1..Min(BACK_WINDOW, chunk_size - overlap) :
                    /\ end0 - i < Len(text)
                    /\ PyAt(text, end0 - i) \in {".", "!", "?"}}
    IN  IF end0 < Len(text) /\ hits # {}
        THEN end0 - (CHOOSE i \in hits : \A j \in hits : i >= j) + 1
        ELSE end0

\* one pass of the while loop (lines 139-153): the new chunk list and the new start
SplitPass(text, chunk_size, overlap, start, chunks) ==
    LET end == SplitEnd(text, chunk_size, overlap, start)
        chunk == Strip(PySlice(text, start, end))
    IN  [chunks |-> IF chunk # <<>> THEN Append(chunks, chunk) ELSE chunks,
         start  |-> end - overlap]

RECURSIVE SplitLoop(_, _, _, _, _)
SplitLoop(text, chunk_size, overlap, start, chunks) ==
    IF start < Len(text)
    THEN LET p == SplitPass(text, chunk_size, overlap, start, chunks)
         IN  SplitLoop(text, chunk_size, overlap, p.start, p.chunks)
    ELSE chunks

\* the short path of _split_text (lines 133-134)
SplitShort(text) == <<text>>

\* _split_text(text, chunk_size, overlap)
SplitText(text, chunk_size, overlap) ==
    IF Len(text) <= chunk_size
    THEN SplitShort(text)
    ELSE SplitLoop(text, chunk_size, overlap, 0, <<>>)

-----------------------------------------------------------------------------
(* Texts used as inputs *)

KILIMANI_DOC ==
    <<"K","i","l","i","m","a","n","i"," ","2","-","b","e","d","r","o","o","m"," ","a","p","a",
      "r","t","m","e","n","t","s"," ","a","v","e","r","a","g","e"," ","K","S","H"," ","6","0",
      ",","0","0","0","/","m","o","n","t","h",".">>

KILIMANI_QUERY ==
    <<"a","p","a","r","t","m","e","n","t"," ","p","r","i","c","e","s"," ","i","n"," ","K","i",
      "l","i","m","a","n","i">>

DOC_A ==
    <<"K","i","l","i","m","a","n","i"," ","r","e","n","t">>

DOC_B ==
    <<"K","a","r","e","n"," ","r","e","n","t"," ","i","s"," ","h","i","g","h">>

DOC_C ==
    <<" ","r","e","n","t"," ","i","n"," ","K","a","r","e","n"," ">>

QUERY_1 ==
    <<"K","i","l","i","m","a","n","i"," ","r","e","n","t">>

QUERY_2 ==
    <<"k","a","r","e","n">>

GEN_TEXT ==
    <<"R","e","n","t"," ","i","s"," ","a","b","o","u","t"," ","6","0","k",".">>

MSG_EMPTY ==
    <<"I"," ","a","p","o","l","o","g","i","z","e",","," ","b","u","t"," ","I"," ","c","o","u",
      "l","d","n","'","t"," ","g","e","n","e","r","a","t","e"," ","a"," ","r","e","s","p","o",
      "n","s","e"," ","a","t"," ","t","h","i","s"," ","t","i","m","e",".">>

MSG_AUTH ==
    <<"I","'","m"," ","e","x","p","e","r","i","e","n","c","i","n","g"," ","a","u","t","h","e",
      "n","t","i","c","a","t","i","o","n"," ","i","s","s","u","e","s"," ","w","i","t","h"," ",
      "t","h","e"," ","A","I"," ","s","e","r","v","i","c","e","."," ","P","l","e","a","s","e",
      " ","c","h","e","c","k"," ","t","h","e"," ","A","P","I"," ","c","o","n","f","i","g","u",
      "r","a","t","i","o","n",".">>

MSG_RATE ==
    <<"I","'","m"," ","e","x","p","e","r","i","e","n","c","i","n","g"," ","r","a","t","e"," ",
      "l","i","m","i","t","i","n","g"," ","f","r","o","m"," ","t","h","e"," ","A","I"," ","s",
      "e","r","v","i","c","e","."," ","P","l","e","a","s","e"," ","t","r","y"," ","a","g","a",
      "i","n"," ","i","n"," ","a"," ","m","o","m","e","n","t",".">>

MSG_NETWORK ==
    <<"I","'","m"," ","e","x","p","e","r","i","e","n","c","i","n","g"," ","n","e","t","w","o",
      "r","k"," ","c","o","n","n","e","c","t","i","v","i","t","y"," ","i","s","s","u","e","s",
      "."," ","P","l","e","a","s","e"," ","t","r","y"," ","a","g","a","i","n",".">>

MSG_OTHER ==
    <<"I","'","m"," ","e","x","p","e","r","i","e","n","c","i","n","g"," ","t","e","c","h","n",
      "i","c","a","l"," ","d","i","f","f","i","c","u","l","t","i","e","s"," ","w","i","t","h",
      " ","t","h","e"," ","A","I"," ","s","e","r","v","i","c","e","."," ","P","l","e","a","s",
      "e"," ","t","r","y"," ","a","g","a","i","n"," ","l","a","t","e","r",".">>

MSG_TECHNICAL ==
    <<"I"," ","a","p","o","l","o","g","i","z","e",","," ","b","u","t"," ","I","'","m"," ","e",
      "x","p","e","r","i","e","n","c","i","n","g"," ","t","e","c","h","n","i","c","a","l"," ",
      "d","i","f","f","i","c","u","l","t","i","e","s","."," ","P","l","e","a","s","e"," ","t",
      "r","y"," ","a","g","a","i","n"," ","l","a","t","e","r",".">>

-----------------------------------------------------------------------------
(* The corpus source: files under settings.knowledge_base_path *)

SUPPORTED_FILE_TYPES == {".txt", ".pdf", ".docx"}

File(name, suffix, content, readable) ==
    [name |-> name, suffix |-> suffix, content |-> content, readable |-> readable]

CorpusKilimani == <<File("kilimani.txt", ".txt", KILIMANI_DOC, TRUE)>>

CorpusMarket ==
    <<File("a.txt", ".txt", DOC_A, TRUE),
      File("brochure.pdf", ".pdf", DOC_B, TRUE),
      File("b.txt", ".txt", DOC_B, TRUE),
      File("c.txt", ".txt", DOC_C, TRUE)>>

\* the same tree with b.txt unreadable (permissions, bad encoding)
CorpusMarketBad ==
    <<File("a.txt", ".txt", DOC_A, TRUE),
      File("brochure.pdf", ".pdf", DOC_B, TRUE),
      File("b.txt", ".txt", DOC_B, FALSE),
      File("c.txt", ".txt", DOC_C, TRUE)>>

FsStates ==
    {[root |-> TRUE, files |-> CorpusKilimani],
     [root |-> TRUE, files |-> CorpusMarket],
     [root |-> TRUE, files |-> CorpusMarketBad],
     [root |-> FALSE, files |-> <<>>]}

Queries == {KILIMANI_QUERY, QUERY_1, QUERY_2}

-----------------------------------------------------------------------------
(* Knowledge base: SimpleKnowledgeBase *)

\* _extract_text: the text of a .txt file, None (<<>>) for other types; an error
\* while reading reaches `logging.error`, and agent_simple does not import
\* logging, so the handler itself raises (NameError)
ExtractText(f) ==
    IF f.suffix = ".txt"
    THEN IF f.readable
         THEN [raised |-> FALSE, text |-> f.content]
         ELSE [raised |-> TRUE, text |-> <<>>]
    ELSE [raised |-> FALSE, text |-> <<>>]

\* the doc_info records made of the chunks of one file (lines 66-79)
DocInfos(f, chunks) ==
    [i \in 1..Len(chunks) |->
        [content |-> chunks[i], source |-> f.name, chunk_id |-> i - 1]]

\* lines 63-79
FileDocs(f, content) == DocInfos(f, SplitText(content, CHUNK_SIZE, CHUNK_OVERLAP))

\* the loop over the files (lines 57-94), appending to self.documents as it goes
RECURSIVE LoadLoop(_, _, _)
LoadLoop(files, i, docs) ==
    IF i > Len(files) THEN [raised |-> FALSE, documents |-> docs]
    ELSE IF files[i].suffix \notin SUPPORTED_FILE_TYPES
         THEN LoadLoop(files, i + 1, docs)
    ELSE IF ExtractText(files[i]).raised THEN [raised |-> TRUE, documents |-> docs]
    ELSE IF ExtractText(files[i]).text = <<>> THEN LoadLoop(files, i + 1, docs)
    ELSE LoadLoop(files, i + 1, docs \o FileDocs(files[i], ExtractText(files[i]).text))

\* load_documents on a store holding (docs0, loaded0): whether it raised, and the
\* fields it leaves behind. The except clause (lines 111-116) logs and re-raises;
\* it restores nothing.
\* lines 96 and 111-116: what the loop leaves in the fields
AfterLoop(r, loaded0) ==
    [raised |-> r.raised, documents |-> r.documents,
     loaded |-> IF r.raised THEN loaded0 ELSE TRUE]

LoadDocuments(docs0, loaded0, disk) ==
    IF ~disk.root
    THEN [raised |-> TRUE, documents |-> docs0, loaded |-> loaded0]
    ELSE AfterLoop(LoadLoop(disk.files, 1, <<>>), loaded0)

\* exact fractions
FracGT(a, b) == a[1] * b[2] > b[1] * a[2]

FracLE(a, b) == a[1] * b[2] <= b[1] * a[2]

\* a search that would keep every overlapping chunk, whatever its score
KeepsAnyOverlap(similarity) == TRUE

\* the hard-coded cut of the lexical search (line 193)
SIMPLE_THRESHOLD == <<1, 10>>

\* settings.similarity_threshold = 0.7
SIMILARITY_THRESHOLD == <<7, 10>>

\* the test of line 193
PassesThreshold(similarity) == FracGT(similarity, SIMPLE_THRESHOLD)

\* lines 185-200 for one document: the SearchResult, or none
Match(doc, query_words) ==
    LET content_words == FindWords(Lower(doc.content))
        overlap == Cardinality(query_words \cap content_words)
        similarity == <<overlap, Cardinality(query_words \cup content_words)>>
    IN  IF overlap > 0 /\ PassesThreshold(similarity)
        THEN <<[content |-> doc.content, source |-> doc.source, score |-> similarity]>>
        ELSE <<>>

RECURSIVE Matches(_, _, _)
Matches(docs, i, query_words) ==
    IF i > Len(docs) THEN <<>>
    ELSE Match(docs[i], query_words) \o Matches(docs, i + 1, query_words)

\* results.sort(key=score, reverse=True): stable, descending
RECURSIVE SortByScore(_)
SortByScore(rs) ==
    IF Len(rs) <= 1 THEN rs
    ELSE LET best == CHOOSE i \in 1..Len(rs) :
                        /\ \A j \in 1..Len(rs) : FracLE(rs[j].score, rs[i].score)
                        /\ \A j \in 1..(i - 1) : FracGT(rs[i].score, rs[j].score)
             rest == [k \in 1..(Len(rs) - 1) |-> IF k < best THEN rs[k] ELSE rs[k + 1]]
         IN  <<rs[best]>> \o SortByScore(rest)

TOP_K == 5

\* lines 171-225 on a loaded store
Rank(docs, query, top_k) ==
    LET results == SortByScore(Matches(docs, 1, FindWords(Lower(query))))
    IN  SubSeq(results, 1, Min(top_k, Len(results)))

\* lines 166-215: what search does after the load it may have triggered
\* returned `ld`; line 164 is outside the try, so a load that raises makes the
\* search raise
SearchLoaded(ld, attempted, query, top_k) ==
    [raised      |-> ld.raised,
     load_failed |-> attempted /\ ld.raised,
     results     |-> IF ld.raised \/ ~ld.loaded THEN <<>>
                     ELSE Rank(ld.documents, query, top_k),
     scanned     |-> IF ld.raised \/ ~ld.loaded THEN <<>> ELSE ld.documents,
     documents   |-> ld.documents,
     loaded      |-> ld.loaded]

\* search(query, top_k) on a store holding (docs0, loaded0): the load it
\* triggers, what it returns, and the fields it leaves
Search(docs0, loaded0, disk, query, top_k) ==
    SearchLoaded(IF ~loaded0 THEN LoadDocuments(docs0, loaded0, disk)
                 ELSE [raised |-> FALSE, documents |-> docs0, loaded |-> loaded0],
                 ~loaded0, query, top_k)

-----------------------------------------------------------------------------
(* The generation capability: SimpleRealEstateAgent._generate_response *)

ERR_401 ==
    <<"C","l","i","e","n","t"," ","e","r","r","o","r"," ","'","4","0","1"," ","U","n","a","u",
      "t","h","o","r","i","z","e","d","'">>

ERR_429 ==
    <<"C","l","i","e","n","t"," ","e","r","r","o","r"," ","'","4","2","9"," ","T","o","o"," ",
      "M","a","n","y"," ","R","e","q","u","e","s","t","s","'">>

ERR_CONNECT ==
    <<"A","l","l"," ","c","o","n","n","e","c","t","i","o","n"," ","a","t","t","e","m","p","t",
      "s"," ","f","a","i","l","e","d">>

ERR_TIMEOUT ==
    <<"R","e","a","d","T","i","m","e","o","u","t">>

\* `sub in s` on Python strings
Contains(sub, s) ==
    \E i \in 0..(Len(s) - Len(sub)) : SubSeq(s, i + 1, i + Len(sub)) = sub

\* what the HTTP call can do: a completion, a reply without text, or an error
\* whose str() is given
GenOutcomes ==
    {[kind |-> "ok", text |-> GEN_TEXT],
     [kind |-> "empty", text |-> <<>>],
     [kind |-> "error", text |-> ERR_401],
     [kind |-> "error", text |-> ERR_429],
     [kind |-> "error", text |-> ERR_CONNECT],
     [kind |-> "error", text |-> ERR_TIMEOUT]}

\* a message that would carry the error text to the caller
EchoedError(error_text) == <<"E","r","r","o","r",":"," ">> \o error_text

\* the message chosen from the error text (lines 562-570)
ErrorMessage(error_text) ==
    LET error_str == Lower(error_text)
    IN  IF \/ Contains(<<"a","p","i"," ","k","e","y">>, error_str)
           \/ Contains(<<"a","u","t","h","e","n","t","i","c","a","t","i","o","n">>, error_str)
           \/ Contains(<<"4","0","1">>, error_str)
        THEN MSG_AUTH
        ELSE IF \/ Contains(<<"r","a","t","e"," ","l","i","m","i","t">>, error_str)
                \/ Contains(<<"q","u","o","t","a">>, error_str)
                \/ Contains(<<"4","2","9">>, error_str)
        THEN MSG_RATE
        ELSE IF \/ Contains(<<"n","e","t","w","o","r","k">>, error_str)
                \/ Contains(<<"c","o","n","n","e","c","t","i","o","n">>, error_str)
        THEN MSG_NETWORK
        ELSE MSG_OTHER

\* _generate_response: it returns a string on every path (lines 480-570)
GenerateResponse(g) ==
    IF g.kind = "error" THEN ErrorMessage(g.text)
    ELSE IF Strip(g.text) # <<>> THEN Strip(g.text)
    ELSE MSG_EMPTY

-----------------------------------------------------------------------------
(* Confidence: SimpleRealEstateAgent._calculate_confidence, in hundredths *)

RECURSIVE SumScores(_, _)
SumScores(results, i) ==
    IF i > Len(results) THEN <<0, 1>>
    ELSE LET s == results[i].score
             r == SumScores(results, i + 1)
         IN  <<s[1] * r[2] + r[1] * s[2], s[2] * r[2]>>

\* round(p/q) for p/q >= 0, ties to the even neighbour (binary floating point
\* can land on either side of an exact tie; the inputs below produce none)
RoundFrac(p, q) ==
    LET fl == p \div q
        twice == 2 * (p % q)
    IN  IF twice > q THEN fl + 1
        ELSE IF twice < q THEN fl
        ELSE IF fl % 2 = 0 THEN fl ELSE fl + 1

NO_MATCH_CONFIDENCE == 30

RESPONSE_FULL_LENGTH == 500

SOURCES_FULL_COUNT == 5

\* the same sum with the response length and the total left uncapped
UncappedConfidence(search_results, response) ==
    IF search_results = <<>> THEN NO_MATCH_CONFIDENCE
    ELSE LET k == Len(search_results)
             sum == SumScores(search_results, 1)
         IN  RoundFrac(2500 * sum[1] + 3 * Len(response) * sum[2] * k
                          + 200 * Min(k, SOURCES_FULL_COUNT) * sum[2] * k,
                       50 * sum[2] * k)

\* lines 574-587; the result is confidence * 100
CalculateConfidence(search_results, response) ==
    IF search_results = <<>> THEN NO_MATCH_CONFIDENCE
    ELSE LET k == Len(search_results)
             sum == SumScores(search_results, 1)
             mlen == Min(Len(response), RESPONSE_FULL_LENGTH)
             mk == Min(k, SOURCES_FULL_COUNT)
             \* 100 * (0.5 * avg + 0.3 * mlen / 500 + 0.2 * mk / 5) = p / q
             q == 50 * sum[2] * k
             p == 2500 * sum[1] + 3 * mlen * sum[2] * k + 200 * mk * sum[2] * k
         IN  IF p > 100 * q THEN 100 ELSE RoundFrac(p, q)

-----------------------------------------------------------------------------
(* The property catalog: properties_data.json *)

REC_QUERY ==
    <<"a","p","a","r","t","m","e","n","t"," ","i","n"," ","W","e","s","t","l","a","n","d","s">>

JSON_WESTLANDS ==
    <<"{","\"","l","o","c","a","t","i","o","n","\"",":"," ","\"","w","e","s","t","l","a","n",
      "d","s","\"",","," ","\"","p","r","o","p","e","r","t","y","_","t","y","p","e","\"",":",
      " ","\"","a","p","a","r","t","m","e","n","t","\"","}">>

JSON_MALFORMED ==
    <<"{","l","o","c","a","t","i","o","n",":"," ","w","e","s","t","l","a","n","d","s","}">>

JSON_BEDROOMS_TEXT ==
    <<"{","\"","b","e","d","r","o","o","m","s","\"",":"," ","\"","t","w","o","\"","}">>

JSON_NULL_PREFERENCES ==
    <<"{","\"","p","r","e","f","e","r","e","n","c","e","s","\"",":"," ","n","u","l","l","}">>

\* "U+FE0F" stands for the variation selector that follows the warning sign
NOTE_UNAVAILABLE ==
    <<"\n","\n","⚠","U+FE0F"," ","P","r","o","p","e","r","t","y"," ","d","a","t","a"," ","u","n","a",
      "v","a","i","l","a","b","l","e",".">>

MSG_RECOMMEND ==
    <<"⚠","U+FE0F"," ","S","o","r","r","y",","," ","I","'","m"," ","h","a","v","i","n","g"," ","t",
      "r","o","u","b","l","e"," ","f","e","t","c","h","i","n","g"," ","p","r","o","p","e","r",
      "t","y"," ","r","e","c","o","m","m","e","n","d","a","t","i","o","n","s"," ","r","i","g",
      "h","t"," ","n","o","w",".">>

\* the components of a score, in thousandths
NoBreakdown ==
    [semantic_similarity |-> 0, location |-> 0, property_type |-> 0,
     preferences |-> 0, price |-> 0, amenities |-> 0]

\* a listing as json.load gives it; `missing` names the keys the object lacks, and
\* a location is an object, null, or absent; `null` names the keys of the object
\* whose value is null
Location(suburb, city) == [kind |-> "dict", suburb |-> suburb, city |-> city, null |-> {}]

LocationNull == [kind |-> "null", suburb |-> <<>>, city |-> <<>>, null |-> {}]

P_KAREN ==
    [id |-> "p1", title |-> <<"K","a","r","e","n"," ","h","o","u","s","e">>, description |-> <<"Q","u","i","e","t"," ","f","a","m","i","l","y"," ","h","o","m","e">>,
     property_type |-> <<"h","o","u","s","e">>, location |-> Location(<<"K","a","r","e","n">>, <<"N","a","i","r","o","b","i">>),
     price |-> 25000000, bedrooms |-> 4, bathrooms |-> 3, furnished |-> FALSE,
     amenities |-> <<<<"g","a","r","d","e","n">>>>, rating |-> 45, images |-> <<>>,
     match_score |-> 0, score_breakdown |-> NoBreakdown,
     missing |-> {"match_score", "score_breakdown"}]

P_WESTLANDS ==
    [id |-> "p2", title |-> <<"W","e","s","t","l","a","n","d","s"," ","a","p","a","r","t","m","e","n","t">>, description |-> <<"M","o","d","e","r","n"," ","f","l","a","t">>,
     property_type |-> <<"a","p","a","r","t","m","e","n","t">>, location |-> Location(<<"W","e","s","t","l","a","n","d","s">>, <<"N","a","i","r","o","b","i">>),
     price |-> 8000000, bedrooms |-> 2, bathrooms |-> 2, furnished |-> TRUE,
     amenities |-> <<<<"g","y","m">>, <<"p","o","o","l">>>>, rating |-> 48, images |-> <<<<"w",".","j","p","g">>>>,
     match_score |-> 0, score_breakdown |-> NoBreakdown,
     missing |-> {"match_score", "score_breakdown"}]

\* the same listing written without a title
P_UNTITLED ==
    [P_WESTLANDS EXCEPT !.id = "p3", !.title = <<>>, !.missing = @ \cup {"title"}]

\* a listing whose "location" is null
P_UNPLACED ==
    [P_KAREN EXCEPT !.id = "p4", !.location = LocationNull]

\* a listing whose location has "suburb": null
P_NOSUBURB ==
    [P_KAREN EXCEPT !.id = "p5", !.location.null = {"suburb"}, !.location.suburb = <<>>]

\* what properties_data.json can be: absent, not JSON, or a list of listings
CatalogFile(exists, parses, listings) ==
    [exists |-> exists, parses |-> parses, listings |-> listings]

Catalogs ==
    <<CatalogFile(TRUE, TRUE, <<P_KAREN, P_WESTLANDS>>),
      CatalogFile(FALSE, FALSE, <<>>),
      CatalogFile(TRUE, FALSE, <<>>),
      CatalogFile(TRUE, TRUE, <<P_KAREN, P_UNTITLED>>),
      CatalogFile(TRUE, TRUE, <<P_UNPLACED, P_WESTLANDS>>),
      CatalogFile(TRUE, TRUE, <<P_WESTLANDS, P_NOSUBURB>>)>>

\* prop.get(key, default)
Get(prop, key, default) == IF key \in prop.missing THEN default ELSE prop[key]

\* prop.get("location", {}): the object it yields is None for a null location
HasLocationObject(prop) == "location" \in prop.missing \/ prop.location.kind = "dict"

\* prop.get("location", {}).get(key, "") is None: the key is there, with null
LocationIsNone(prop, key) ==
    /\ "location" \notin prop.missing
    /\ prop.location.kind = "dict"
    /\ key \in prop.location.null

\* prop.get("location", {}).get(key, "").lower() raises AttributeError
LowerRaises(prop, key) == ~HasLocationObject(prop) \/ LocationIsNone(prop, key)

\* prop.get("location", {}).get(key, ""), for a listing with HasLocationObject
LocationGet(prop, key) ==
    IF "location" \in prop.missing THEN <<>> ELSE prop.location[key]

-----------------------------------------------------------------------------
(* Requirement records: the dict _extract_requirements_semantically returns *)

\* JSON values
JNull == [t |-> "null"]

JAbsent == [t |-> "absent"]

JNum(n) == [t |-> "num", v |-> n]

JStr(s) == [t |-> "str", v |-> s]

JBool(b) == [t |-> "bool", v |-> b]

JList(l) == [t |-> "list", v |-> l]

ReqKeys ==
    {"location", "property_type", "bedrooms", "bathrooms", "min_price", "max_price",
     "furnished", "preferences", "transaction_type", "amenities_mentioned",
     "price_range_indicator", "urgency"}

\* a dict with no key
EmptyRecord == [k \in ReqKeys |-> JAbsent]

\* a test that would take only a missing key for unset, and null for a value
IsMissing(j) == j.t = "absent"

\* requirements.get(key): None for a missing key
IsNone(j) == j.t \in {"null", "absent"}

\* the truth value Python gives a JSON value
Truthy(j) ==
    CASE j.t \in {"null", "absent"} -> FALSE
      [] j.t = "num" -> j.v # 0
      [] j.t = "bool" -> j.v
      [] OTHER -> j.v # <<>>

\* re.search(r'\{[^{}]*\}', text): the leftmost brace pair with no brace inside
IsBrace(c) == c \in {"{", "}"}

\* the first brace after position i, 0 when there is none
NextBrace(text, i) ==
    LET later == {k \in (i + 1)..Len(text) : IsBrace(text[k])}
    IN  IF later = {} THEN 0 ELSE CHOOSE k \in later : \A o \in later : k <= o

ObjectSpans(text) ==
    {s \in {<<i, NextBrace(text, i)>> : i \in {k \in 1..Len(text) : text[k] = "{"}} :
        s[2] # 0 /\ text[s[2]] = "}"}

FirstObject(text) ==
    LET s == CHOOSE s \in ObjectSpans(text) :
                \A o \in ObjectSpans(text) : s[1] <= o[1]
    IN  SubSeq(text, s[1], s[2])

\* json.loads on the replies the model takes: the dict, or a JSONDecodeError
JsonLoads(text) ==
    CASE text = JSON_WESTLANDS ->
            [raised |-> FALSE,
             value |-> [EmptyRecord EXCEPT !["location"] = JStr(<<"w","e","s","t","l","a","n","d","s">>),
                                           !["property_type"] = JStr(<<"a","p","a","r","t","m","e","n","t">>)]]
      [] text = JSON_BEDROOMS_TEXT ->
            [raised |-> FALSE,
             value |-> [EmptyRecord EXCEPT !["bedrooms"] = JStr(<<"t","w","o">>)]]
      [] text = JSON_NULL_PREFERENCES ->
            [raised |-> FALSE,
             value |-> [EmptyRecord EXCEPT !["preferences"] = JNull]]
      [] OTHER -> [raised |-> TRUE, value |-> EmptyRecord]

-----------------------------------------------------------------------------
(* Keyword extraction: _extract_requirements_fallback *)

\* any(word in s for word in words)
AnyIn(words, s) == \E i \in 1..Len(words) : Contains(words[i], s)

PROPERTY_TYPES ==
    <<<<"a","p","a","r","t","m","e","n","t">>,
      <<"b","e","d","s","i","t","t","e","r">>,
      <<"s","t","u","d","i","o">>,
      <<"h","o","u","s","e">>,
      <<"m","a","i","s","o","n","e","t","t","e">>>>

AFFORDABLE_WORDS ==
    <<<<"a","f","f","o","r","d","a","b","l","e">>,
      <<"b","u","d","g","e","t">>,
      <<"c","h","e","a","p">>,
      <<"l","o","w"," ","c","o","s","t">>>>

LUXURY_WORDS ==
    <<<<"l","u","x","u","r","y">>,
      <<"p","r","e","m","i","u","m">>,
      <<"h","i","g","h","-","e","n","d">>,
      <<"e","x","p","e","n","s","i","v","e">>>>

FAMILY_WORDS ==
    <<<<"f","a","m","i","l","y">>, <<"k","i","d","s">>, <<"c","h","i","l","d","r","e","n">>>>

QUIET_WORDS ==
    <<<<"q","u","i","e","t">>, <<"p","e","a","c","e","f","u","l">>, <<"c","a","l","m">>>>

MODERN_WORDS ==
    <<<<"m","o","d","e","r","n">>, <<"n","e","w">>, <<"u","p","d","a","t","e","d">>>>

\* lines 846-850: the first listing whose suburb the query contains; a null
\* location or a null suburb ends the loop with an AttributeError
RECURSIVE FallbackLocation(_, _, _)
FallbackLocation(query_lower, properties, i) ==
    IF i > Len(properties) THEN [raised |-> FALSE, value |-> JNull]
    ELSE IF LowerRaises(properties[i], "suburb") THEN [raised |-> TRUE, value |-> JNull]
    ELSE LET suburb == Lower(LocationGet(properties[i], "suburb"))
         IN  IF suburb # <<>> /\ Contains(suburb, query_lower)
             THEN [raised |-> FALSE, value |-> JStr(suburb)]
             ELSE FallbackLocation(query_lower, properties, i + 1)

\* lines 853-857
RECURSIVE FallbackType(_, _)
FallbackType(query_lower, i) ==
    IF i > Len(PROPERTY_TYPES) THEN JNull
    ELSE IF Contains(PROPERTY_TYPES[i], query_lower) THEN JStr(PROPERTY_TYPES[i])
    ELSE FallbackType(query_lower, i + 1)

DigitValue(c) ==
    CASE c = "0" -> 0 [] c = "1" -> 1 [] c = "2" -> 2 [] c = "3" -> 3 [] c = "4" -> 4
      [] c = "5" -> 5 [] c = "6" -> 6 [] c = "7" -> 7 [] c = "8" -> 8 [] c = "9" -> 9

\* int(digits)
RECURSIVE ParseInt(_)
ParseInt(digits) ==
    IF digits = <<>> THEN 0
    ELSE 10 * ParseInt(SubSeq(digits, 1, Len(digits) - 1)) + DigitValue(digits[Len(digits)])

StartsWithAt(s, i, word) ==
    i + Len(word) - 1 <= Len(s) /\ SubSeq(s, i, i + Len(word) - 1) = word

\* the matches of (\d+)\s*(?:bedroom|bed|br) as <<first digit, last digit>>: \d+
\* runs to the last digit, \s* over the spaces, and the word follows
DigitRunEnd(s, i) ==
    LET stops == {k \in i..Len(s) : k = Len(s) \/ s[k + 1] \notin Digits}
    IN  CHOOSE k \in stops : \A o \in stops : k <= o

SkipSpaces(s, i) ==
    LET stops == {k \in i..(Len(s) + 1) : k = Len(s) + 1 \/ ~IsSpace(s[k])}
    IN  CHOOSE k \in stops : \A o \in stops : k <= o

BedroomSpans(s) ==
    {d \in {<<i, DigitRunEnd(s, i)>> : i \in {k \in 1..Len(s) : s[k] \in Digits}} :
        LET w == SkipSpaces(s, d[2] + 1)
        IN  StartsWithAt(s, w, <<"b","e","d">>) \/ StartsWithAt(s, w, <<"b","r">>)}

\* lines 860-862: re.search takes the leftmost match, \d+ as long as it can be
FallbackBedrooms(query_lower) ==
    IF BedroomSpans(query_lower) = {} THEN JNull
    ELSE LET d == CHOOSE d \in BedroomSpans(query_lower) :
                     \A o \in BedroomSpans(query_lower) : d[1] <= o[1]
         IN  JNum(ParseInt(SubSeq(query_lower, d[1], d[2])))

\* lines 865-868
FallbackPriceIndicator(query_lower) ==
    IF AnyIn(AFFORDABLE_WORDS, query_lower) THEN JStr(<<"a","f","f","o","r","d","a","b","l","e">>)
    ELSE IF AnyIn(LUXURY_WORDS, query_lower) THEN JStr(<<"l","u","x","u","r","y">>)
    ELSE JNull

\* lines 871-876
FallbackPreferences(query_lower) ==
    (IF AnyIn(FAMILY_WORDS, query_lower) THEN <<<<"f","a","m","i","l","y","-","f","r","i","e","n","d","l","y">>>> ELSE <<>>)
    \o (IF AnyIn(QUIET_WORDS, query_lower) THEN <<<<"q","u","i","e","t">>>> ELSE <<>>)
    \o (IF AnyIn(MODERN_WORDS, query_lower) THEN <<<<"m","o","d","e","r","n">>>> ELSE <<>>)

\* a fallback that reads nothing from the query
NoKeywords(query, properties) ==
    [raised |-> FALSE,
     value  |-> [k \in ReqKeys |->
                   IF k \in {"preferences", "amenities_mentioned"} THEN JList(<<>>)
                   ELSE JNull]]

\* _extract_requirements_fallback(query, properties)
ExtractRequirementsFallback(query, properties) ==
    LET query_lower == Lower(query)
        loc == FallbackLocation(query_lower, properties, 1)
    IN  [raised |-> loc.raised,
         value  |-> [k \in ReqKeys |->
                       CASE k = "location" -> loc.value
                         [] k = "property_type" -> FallbackType(query_lower, 1)
                         [] k = "bedrooms" -> FallbackBedrooms(query_lower)
                         [] k = "price_range_indicator" -> FallbackPriceIndicator(query_lower)
                         [] k = "preferences" -> JList(FallbackPreferences(query_lower))
                         [] k = "amenities_mentioned" -> JList(<<>>)
                         [] OTHER -> JNull]]

-----------------------------------------------------------------------------
(* The listing filter: _apply_semantic_filters *)

\* a JSON value an ordering comparison with an int accepts (True is 1, False is 0)
IsNumber(j) == j.t \in {"num", "bool"}

NumberOf(j) == IF j.t = "bool" THEN (IF j.v THEN 1 ELSE 0) ELSE j.v

\* prop.get("furnished") != requirements["furnished"]
FurnishedDiffers(prop, j) ==
    IF "furnished" \in prop.missing THEN TRUE
    ELSE IF j.t = "bool" THEN prop.furnished # j.v
    ELSE IF j.t = "num" THEN (IF prop.furnished THEN 1 ELSE 0) # j.v
    ELSE TRUE

\* the body of the loop for one listing (lines 889-931): whether the listing is
\* kept, or that an exception ends the call
FilterOne(prop, requirements) ==
    LET location == requirements["location"]
        property_type == requirements["property_type"]
        bedrooms == requirements["bedrooms"]
        bathrooms == requirements["bathrooms"]
        min_price == requirements["min_price"]
        max_price == requirements["max_price"]
        furnished == requirements["furnished"]
        prop_price == Get(prop, "price", 0)
        raised ==
            \/ Truthy(location) /\ (\/ location.t # "str"
                                    \/ LowerRaises(prop, "suburb")
                                    \/ LowerRaises(prop, "city"))
            \/ Truthy(property_type) /\ property_type.t # "str"
            \/ ~IsNone(bedrooms) /\ ~IsNumber(bedrooms)
            \/ ~IsNone(bathrooms) /\ ~IsNumber(bathrooms)
            \/ ~IsNone(min_price) /\ ~IsNumber(min_price)
            \/ ~IsNone(max_price) /\ ~IsNumber(max_price)
        include ==
            /\ Truthy(location) =>
                  LET loc == Lower(location.v)
                  IN  \/ Contains(loc, Lower(LocationGet(prop, "suburb")))
                      \/ Contains(loc, Lower(LocationGet(prop, "city")))
            /\ Truthy(property_type) =>
                  Contains(Lower(property_type.v), Lower(Get(prop, "property_type", <<>>)))
            /\ ~IsNone(bedrooms) => ~(Get(prop, "bedrooms", 0) < NumberOf(bedrooms))
            /\ ~IsNone(bathrooms) => ~(Get(prop, "bathrooms", 0) < NumberOf(bathrooms))
            /\ ~IsNone(min_price) => ~(prop_price < NumberOf(min_price))
            /\ ~IsNone(max_price) => ~(prop_price > NumberOf(max_price))
            /\ ~IsNone(furnished) => ~FurnishedDiffers(prop, furnished)
    IN  [raised |-> raised, include |-> ~raised /\ include]

RECURSIVE FilterLoop(_, _, _, _)
FilterLoop(properties, requirements, i, filtered) ==
    IF i > Len(properties) THEN [raised |-> FALSE, value |-> filtered]
    ELSE LET one == FilterOne(properties[i], requirements)
         IN  IF one.raised THEN [raised |-> TRUE, value |-> <<>>]
             ELSE FilterLoop(properties, requirements, i + 1,
                             IF one.include THEN Append(filtered, properties[i])
                             ELSE filtered)

\* _apply_semantic_filters(properties, requirements)
ApplySemanticFilters(properties, requirements) ==
    FilterLoop(properties, requirements, 1, <<>>)

\* a merge that would leave the explicit filters out
ExtractedOnly(requirements, filters) == requirements

\* lines 672-677: explicit filters override what was extracted, except where
\* their value is None
MergeFilters(requirements, filters) ==
    [k \in ReqKeys |-> IF IsNone(filters[k]) THEN requirements[k] ELSE filters[k]]


-----------------------------------------------------------------------------
(* The relevance scorer: _score_properties_semantically *)

\* " ".join(texts)
RECURSIVE Join(_)
Join(texts) ==
    IF texts = <<>> THEN <<>>
    ELSE IF Len(texts) = 1 THEN texts[1]
    ELSE texts[1] \o <<" ">> \o Join(Tail(texts))

LowerAll(texts) == [i \in 1..Len(texts) |-> Lower(texts[i])]

\* the values SequenceMatcher(...).ratio() is taken to give, as fractions
SeqSims == {<<0, 1>>, <<1, 2>>, <<1, 1>>}

FAMILY_SIGNS ==
    <<<<"f","a","m","i","l","y">>,
      <<"k","i","d","s">>,
      <<"c","h","i","l","d","r","e","n">>,
      <<"s","c","h","o","o","l">>,
      <<"p","l","a","y","g","r","o","u","n","d">>>>

QUIET_SIGNS ==
    <<<<"q","u","i","e","t">>,
      <<"p","e","a","c","e","f","u","l">>,
      <<"c","a","l","m">>,
      <<"s","e","r","e","n","e">>>>

MODERN_SIGNS ==
    <<<<"m","o","d","e","r","n">>,
      <<"n","e","w">>,
      <<"u","p","d","a","t","e","d">>,
      <<"r","e","n","o","v","a","t","e","d">>,
      <<"c","o","n","t","e","m","p","o","r","a","r","y">>>>

\* lines 963-978: the word overlap of query and listing text
PropText(prop) ==
    Lower(Join(<<Get(prop, "title", <<>>), Get(prop, "description", <<>>),
                 Get(prop, "property_type", <<>>), LocationGet(prop, "suburb"),
                 Join(Get(prop, "amenities", <<>>))>>))

JaccardSim(query_lower, prop_text) ==
    LET query_words == FindWords(query_lower)
        prop_words == FindWords(prop_text)
        union == Cardinality(query_words \cup prop_words)
    IN  IF union > 0 THEN <<Cardinality(query_words \cap prop_words), union>>
        ELSE <<0, 1>>

\* a scorer that would take every location as neutral
LocationIgnored(prop, requirements) == 5

\* lines 989-1004, in tenths
LocationScore(prop, requirements) ==
    IF Truthy(requirements["location"])
    THEN LET req_loc == Lower(requirements["location"].v)
             prop_suburb == Lower(LocationGet(prop, "suburb"))
             prop_city == Lower(LocationGet(prop, "city"))
         IN  IF req_loc = prop_suburb THEN 10
             ELSE IF Contains(req_loc, prop_suburb) \/ Contains(prop_suburb, req_loc) THEN 8
             ELSE IF Contains(req_loc, prop_city) THEN 5
             ELSE -2
    ELSE 5

\* lines 1011-1019, in tenths
TypeScore(prop, requirements) ==
    IF Truthy(requirements["property_type"])
    THEN LET req_type == Lower(requirements["property_type"].v)
             prop_type == Lower(Get(prop, "property_type", <<>>))
         IN  IF Contains(req_type, prop_type) \/ Contains(prop_type, req_type) THEN 10
             ELSE -3
    ELSE 5

\* requirements.get(key, []): the list to iterate
ListOf(j) == IF j.t = "absent" THEN <<>> ELSE j.v

\* lines 1033-1044: whether one preference counts
PreferenceMatches(pref, prop_text_combined) ==
    LET pref_lower == Lower(pref)
    IN  \/ Contains(pref_lower, prop_text_combined)
        \/ pref_lower = <<"f","a","m","i","l","y","-","f","r","i","e","n","d","l","y">> /\ AnyIn(FAMILY_SIGNS, prop_text_combined)
        \/ pref_lower = <<"q","u","i","e","t">> /\ AnyIn(QUIET_SIGNS, prop_text_combined)
        \/ pref_lower = <<"m","o","d","e","r","n">> /\ AnyIn(MODERN_SIGNS, prop_text_combined)

\* lines 1026-1049, as a fraction
PreferenceScore(prop, requirements) ==
    LET preferences == ListOf(requirements["preferences"])
        prop_text_combined ==
            Join(<<Lower(Get(prop, "title", <<>>)), Lower(Get(prop, "description", <<>>)),
                   Join(LowerAll(Get(prop, "amenities", <<>>)))>>)
        matches == Cardinality({i \in 1..Len(preferences) :
                                   PreferenceMatches(preferences[i], prop_text_combined)})
    IN  IF preferences # <<>> THEN <<matches, Len(preferences)>> ELSE <<1, 2>>

RECURSIVE SumPrices(_, _)
SumPrices(properties, i) ==
    IF i > Len(properties) THEN 0
    ELSE Get(properties[i], "price", 0) + SumPrices(properties, i + 1)

\* lines 1056-1082, in tenths; avg_price is total / n
PriceScore(prop, requirements, properties) ==
    LET prop_price == Get(prop, "price", 0)
        price_indicator == requirements["price_range_indicator"]
        n == Len(properties)
        total == SumPrices(properties, 1)
    IN  IF Truthy(price_indicator)
        THEN IF price_indicator.t = "str" /\ price_indicator.v = <<"a","f","f","o","r","d","a","b","l","e">>
             THEN IF prop_price * n * 10 <= total * 8 THEN 10
                  ELSE IF prop_price * n <= total THEN 6
                  ELSE 2
             ELSE IF price_indicator.t = "str" /\ price_indicator.v = <<"l","u","x","u","r","y">>
             THEN IF prop_price * n * 10 >= total * 15 THEN 10
                  ELSE IF prop_price * n * 10 >= total * 12 THEN 7
                  ELSE 3
             ELSE 5
        ELSE 5

\* lines 1089-1095, as a fraction
AmenitiesScore(prop, requirements) ==
    LET mentioned_amenities == ListOf(requirements["amenities_mentioned"])
        prop_amenities == LowerAll(Get(prop, "amenities", <<>>))
        matched == Cardinality({i \in 1..Len(mentioned_amenities) :
                      \E a \in 1..Len(prop_amenities) :
                         Contains(Lower(mentioned_amenities[i]), prop_amenities[a])})
    IN  IF mentioned_amenities # <<>> THEN <<matched, Len(mentioned_amenities)>>
        ELSE <<1, 2>>

\* round(x, 3) of the fraction p/q of thousandths, negative values included
RoundSigned(p, q) == IF p >= 0 THEN RoundFrac(p, q) ELSE 0 - RoundFrac(0 - p, q)

\* whether the loop body raises for this listing (lines 967, 1033, 1091)
ScoreRaises(prop, requirements) ==
    \/ ~HasLocationObject(prop)
    \/ LocationIsNone(prop, "suburb")
    \/ requirements["preferences"].t \notin {"absent", "list"}
    \/ Truthy(requirements["amenities_mentioned"]) /\
          requirements["amenities_mentioned"].t # "list"

\* the score components of one listing that do not depend on the sequence
\* ratio (lines 963-978 and 987-1098): tenths, or fractions
ScoreParts(prop, query, requirements, properties) ==
    [jaccard_sim |-> JaccardSim(Lower(query), PropText(prop)),
     location_score |-> LocationScore(prop, requirements),
     type_score |-> TypeScore(prop, requirements),
     preference_score |-> PreferenceScore(prop, requirements),
     price_score |-> PriceScore(prop, requirements, properties),
     amenities_score |-> AmenitiesScore(prop, requirements)]

\* a scorer that would surface the weighted sum as it is
Unclamped(total_score, den) == total_score

\* max(0.0, min(1.0, total_score)) of the fraction total_score/den of
\* thousandths, over the same denominator (line 1101)
Normalize(total_score, den) == Max(0, Min(1000 * den, total_score))

\* lines 983-985 and 1006-1105: the weighted sum, clamped and rounded, written
\* into the listing. match_score and score_breakdown are in thousandths; seq_sim
\* is the ratio SequenceMatcher gave.
Weigh(prop, parts, seq_sim) ==
    LET \* (jaccard * 0.6 + seq * 0.4) * 0.30, in thousandths
        semantic == <<180 * parts.jaccard_sim[1] * seq_sim[2]
                        + 120 * seq_sim[1] * parts.jaccard_sim[2],
                      parts.jaccard_sim[2] * seq_sim[2]>>
        location == 25 * parts.location_score
        property_type == 15 * parts.type_score
        preferences == <<150 * parts.preference_score[1], parts.preference_score[2]>>
        price == 10 * parts.price_score
        amenities == <<50 * parts.amenities_score[1], parts.amenities_score[2]>>
        den == semantic[2] * preferences[2] * amenities[2]
        total_score ==
            semantic[1] * preferences[2] * amenities[2]
            + (location + property_type + price) * den
            + preferences[1] * semantic[2] * amenities[2]
            + amenities[1] * semantic[2] * preferences[2]
        normalized_score == Normalize(total_score, den)
    IN  [prop EXCEPT
            !.match_score = RoundFrac(normalized_score, den),
            !.score_breakdown =
                [semantic_similarity |-> RoundFrac(semantic[1], semantic[2]),
                 location |-> location,
                 property_type |-> property_type,
                 preferences |-> RoundFrac(preferences[1], preferences[2]),
                 price |-> price,
                 amenities |-> RoundFrac(amenities[1], amenities[2])],
            !.missing = @ \ {"match_score", "score_breakdown"}]

\* the body of the loop for one listing (lines 959-1105)
ScoreOne(prop, query, requirements, properties, seq_sim) ==
    Weigh(prop, ScoreParts(prop, query, requirements, properties), seq_sim)

\* the loop of _score_properties_semantically over the filtered listings: the
\* first listing the body raises for ends it
ScoreRaised(properties, requirements) ==
    \E i \in 1..Len(properties) : ScoreRaises(properties[i], requirements)

\* how many listings the loop gets through: all of them, or those before the
\* first one its body raises for
ScoredCount(properties, requirements) ==
    Cardinality({i \in 1..Len(properties) :
                    \A j \in 1..i : ~ScoreRaises(properties[j], requirements)})

AllParts(properties, query, requirements) ==
    [i \in 1..ScoredCount(properties, requirements) |->
        ScoreParts(properties[i], query, requirements, properties)]

ScoreProperties(properties, parts, sims) ==
    [i \in 1..Len(parts) |-> Weigh(properties[i], parts[i], sims[i])]

\* prop["match_score"] = ..., prop["score_breakdown"] = ... (lines 1103-1104):
\* the loop writes into the dict it was handed, and _apply_semantic_filters
\* hands on the dicts of the list it was given (filtered.append(prop)), so the
\* caller's list shows the annotation. A dict is known by its id here.
AnnotatedInPlace(properties, scored) ==
    [i \in 1..Len(properties) |->
        IF \E j \in 1..Len(scored) : scored[j].id = properties[i].id
        THEN scored[CHOOSE j \in 1..Len(scored) : scored[j].id = properties[i].id]
        ELSE properties[i]]

-----------------------------------------------------------------------------
(* Selection and presentation: respond_and_recommend_properties, steps 6 and 7 *)

MATCH_THRESHOLD == 150

MAX_RESULTS == 3

\* [p for p in scored if p["match_score"] >= 0.15]
RECURSIVE KeepStrong(_, _)
KeepStrong(scored, i) ==
    IF i > Len(scored) THEN <<>>
    ELSE (IF scored[i].match_score >= MATCH_THRESHOLD THEN <<scored[i]>> ELSE <<>>)
         \o KeepStrong(scored, i + 1)

\* a selection that would leave the listings in the order it got them
Unsorted(ps) == ps

\* sorted(scored, key=match_score, reverse=True): stable, descending
RECURSIVE SortByMatch(_)
SortByMatch(ps) ==
    IF Len(ps) <= 1 THEN ps
    ELSE LET best == CHOOSE i \in 1..Len(ps) :
                        /\ \A j \in 1..Len(ps) : ps[j].match_score <= ps[i].match_score
                        /\ \A j \in 1..(i - 1) : ps[j].match_score < ps[i].match_score
             rest == [k \in 1..(Len(ps) - 1) |-> IF k < best THEN ps[k] ELSE ps[k + 1]]
         IN  <<ps[best]>> \o SortByMatch(rest)

TopProps(scored, max_results) ==
    LET ranked == SortByMatch(KeepStrong(scored, 1))
    IN  SubSeq(ranked, 1, Min(max_results, Len(ranked)))

\* the keys a recommendation reads with prop[...] (lines 708-718)
LISTING_KEYS ==
    {"title", "location", "price", "bedrooms", "bathrooms", "property_type",
     "furnished", "amenities", "rating", "match_score", "images"}

\* one entry of recommended_properties
Recommendation(prop) ==
    [id |-> prop.id, Title |-> prop.title, Location |-> prop.location.suburb,
     Price |-> prop.price, Bedrooms |-> prop.bedrooms, Bathrooms |-> prop.bathrooms,
     Type |-> prop.property_type, Furnished |-> prop.furnished,
     Amenities |-> SubSeq(prop.amenities, 1, Min(4, Len(prop.amenities))),
     Rating |-> prop.rating, MatchScore |-> prop.match_score]

\* lines 702-720: a KeyError where a listing lacks a key
Recommendations(top_props) ==
    IF \E i \in 1..Len(top_props) : top_props[i].missing \cap LISTING_KEYS # {}
    THEN [raised |-> TRUE, value |-> <<>>]
    ELSE [raised |-> FALSE, value |-> [i \in 1..Len(top_props) |-> Recommendation(top_props[i])]]
-----------------------------------------------------------------------------
(* Conversations: SimpleRealEstateAgent.conversations and process_query *)

ConvIds == {"c1"}

\* the values str(uuid.uuid4()) can take
Uuids == {"u1"}

AllConvIds == ConvIds \cup Uuids

None == "None"

Tasks == {1, 2}

ListIds == 1..(Cardinality(AllConvIds) + Cardinality(Tasks))

HISTORY_LIMIT == 10

Entry(role, content) == [role |-> role, content |-> content]

\* a turn that would record the question alone
Unanswered(query, response) == <<Entry("user", query)>>

\* the two entries of one turn (lines 380-383)
Pair(query, response) == <<Entry("user", query), Entry("assistant", response)>>

\* conversation_history[-10:] (line 384)
LastN(s, n) == IF Len(s) <= n THEN s ELSE SubSeq(s, Len(s) - n + 1, Len(s))

\* the list stored under a conversation id, [] when there is no key
Stored(c) == IF conversations[c] = 0 THEN <<>> ELSE lists[conversations[c]]

\* history[-4:] (line 464)
RECENT_ENTRIES == 4

\* the entries _build_prompt puts under "Previous Conversation:" (lines 461-468)
RecentHistory(history) == LastN(history, RECENT_ENTRIES)

\* _build_prompt (lines 441-473): how the message is framed, and the history
\* entries the prompt shows, in the order it shows them
BuildPrompt(query, history) ==
    [is_first_message |-> Len(history) = 0,
     recent_history |-> RecentHistory(history),
     query |-> query]

NoPrompt == [is_first_message |-> FALSE, recent_history |-> <<>>, query |-> <<>>]

\* a handler's locals: where it is suspended, its arguments, and what it holds
IdleFrame ==
    [pc |-> "idle", op |-> "none", cid |-> None, query |-> <<>>, filters |-> EmptyRecord,
     results |-> <<>>, hist |-> 0, ai |-> <<>>, aiconf |-> 0, properties |-> <<>>,
     prompt |-> NoPrompt]

\* what a handler returned last, with the facts of the call
NoReturn ==
    [kind |-> "none", raised |-> FALSE, response |-> <<>>, conversation_id |-> None,
     sources |-> <<>>, confidence |-> 0, recommended_properties |-> <<>>,
     query |-> <<>>, gen |-> "none", nresults |-> 0, failed |-> "none",
     before |-> <<>>, after |-> <<>>,
     ai_response |-> [response |-> <<>>, confidence |-> 0],
     response_text |-> <<>>, requirements |-> EmptyRecord, filtered_props |-> <<>>,
     top_props |-> <<>>, loaded_properties |-> <<>>, properties |-> <<>>,
     filters |-> EmptyRecord, extracted |-> EmptyRecord]

\* list objects some reference still reaches
Live(convs, frames) ==
    {convs[c] : c \in AllConvIds} \cup {frames[t].hist : t \in Tasks}

\* a list object nobody refers to
FreshList(convs, frames) ==
    CHOOSE i \in ListIds : i \notin Live(convs, frames) /\
        \A j \in ListIds : j \notin Live(convs, frames) => i <= j

\* unreachable list objects are gone
Collect(ls, convs, frames) ==
    [i \in ListIds |-> IF i \in Live(convs, frames) THEN ls[i] ELSE <<>>]

\* an id uuid4 may return: one that names no conversation yet
FreshIds == {u \in Uuids : conversations[u] = 0 /\ \A t \in Tasks : task[t].cid # u}

\* the ChatResponse of the normal path (lines 401-406)
ChatResponse(response, cid, search_results, confidence) ==
    [raised |-> FALSE, response |-> response, conversation_id |-> cid,
     sources |-> [i \in 1..Len(search_results) |-> search_results[i].source],
     confidence |-> confidence]

\* an except clause that would pass the exception on to the caller
ProcessQueryReraise(cid) ==
    [raised |-> TRUE, response |-> <<>>, conversation_id |-> cid,
     sources |-> <<>>, confidence |-> 0]

\* the except clause of process_query (lines 408-422)
ProcessQueryExcept(cid) ==
    [raised |-> FALSE, response |-> MSG_TECHNICAL, conversation_id |-> cid,
     sources |-> <<>>, confidence |-> 0]

\* kbop after a search made on behalf of a query
AfterSearch(r, q) ==
    [op |-> "search", raised |-> r.raised, query |-> q, results |-> r.results,
     scanned |-> r.scanned, wasLoaded |-> loaded,
     loadFailed |-> r.load_failed,
     reset |-> (~loaded /\ fs.root),
     published |-> IF ~loaded /\ ~r.raised THEN r.documents ELSE kbop.published]

-----------------------------------------------------------------------------
(* Knowledge-base operations *)

NoCall ==
    [op |-> "none", raised |-> FALSE, query |-> <<>>, results |-> <<>>,
     scanned |-> <<>>, wasLoaded |-> FALSE, loadFailed |-> FALSE, reset |-> FALSE,
     published |-> <<>>]

\* POST /knowledge/reload (main.py 614-627) and agent.initialize (line 267): a
\* call of load_documents. The coroutine has no suspension point, so it runs as
\* one step.
Reload ==
    \E r \in {LoadDocuments(documents, loaded, fs)} :
        /\ documents' = r.documents
        /\ loaded' = r.loaded
        /\ kbop' = [op |-> "load", raised |-> r.raised, query |-> <<>>,
                    results |-> <<>>, scanned |-> <<>>, wasLoaded |-> loaded,
                    loadFailed |-> r.raised,
                    reset |-> fs.root,
                    published |-> IF r.raised THEN kbop.published ELSE r.documents]
        /\ UNCHANGED <<fs, catalog, conversations, lists, task, ret, log, started, sp, fn>>

\* a call of knowledge_base.search(query)
SearchCall(q) ==
    \E r \in {Search(documents, loaded, fs, q, TOP_K)} :
        /\ documents' = r.documents
        /\ loaded' = r.loaded
        /\ kbop' = AfterSearch(r, q)
        /\ UNCHANGED <<fs, catalog, conversations, lists, task, ret, log, started, sp, fn>>

\* whoever owns the files edits the tree
CorpusChange ==
    /\ fs' \in FsStates \ {fs}
    /\ UNCHANGED <<catalog, documents, loaded, kbop, conversations, lists, task, ret, log, started, sp, fn>>

-----------------------------------------------------------------------------
(* process_query and respond_and_recommend_properties *)

\* what the caller of process_query gets, with the facts of the call
Returned(resp, q, gen, search_results, failed, before, after) ==
    [kind |-> "chat", raised |-> resp.raised, response |-> resp.response,
     conversation_id |-> resp.conversation_id, sources |-> resp.sources,
     confidence |-> resp.confidence, recommended_properties |-> <<>>,
     query |-> q, gen |-> gen, nresults |-> Len(search_results), failed |-> failed,
     before |-> before, after |-> after,
     ai_response |-> [response |-> resp.response, confidence |-> resp.confidence],
     response_text |-> <<>>, requirements |-> EmptyRecord, filtered_props |-> <<>>,
     top_props |-> <<>>, loaded_properties |-> <<>>, properties |-> <<>>,
     filters |-> EmptyRecord, extracted |-> EmptyRecord]

\* the dict respond_and_recommend_properties returns (lines 655-661, 732-738)
Recommended(chat, response, recommended_listings, confidence, failed) ==
    [chat EXCEPT !.kind = "recommend", !.response = response,
                 !.recommended_properties = recommended_listings,
                 !.confidence = confidence, !.sources = <<>>, !.failed = failed]

\* the except clause of respond_and_recommend_properties (lines 740-748)
RecommendExcept(chat, failed) ==
    Recommended(chat, MSG_RECOMMEND, <<>>, 0, failed)

\* lines 651-668 and 761-771: from the answer of process_query to the suspension
\* in the extraction call. `chat` is what process_query returned; a plain
\* process_query call ends here.
AfterAnswer(f, chat) ==
    LET file == Catalogs[catalog]
    IN  IF f.op = "chat" THEN [frame |-> IdleFrame, ret |-> chat, returns |-> TRUE]
        ELSE IF ~file.exists
        THEN [frame |-> IdleFrame, returns |-> TRUE,
              ret |-> Recommended(chat, chat.response \o NOTE_UNAVAILABLE, <<>>,
                                  chat.confidence, "catalog missing")]
        ELSE IF ~file.parses
        THEN [frame |-> IdleFrame, returns |-> TRUE,
              ret |-> RecommendExcept(chat, "catalog corrupt")]
        ELSE IF \E i \in 1..Len(file.listings) : ~HasLocationObject(file.listings[i])
        THEN [frame |-> IdleFrame, returns |-> TRUE,
              ret |-> RecommendExcept(chat, "extraction")]
        ELSE [frame |-> [IdleFrame EXCEPT !.pc = "extract", !.op = f.op, !.cid = f.cid,
                                          !.query = f.query, !.filters = f.filters,
                                          !.ai = chat.response,
                                          !.aiconf = chat.confidence,
                                          !.properties = file.listings],
              returns |-> FALSE, ret |-> chat]

\* lines 309-353: a call of either handler, up to the suspension in
\* _generate_response; when the search raises, the except clause of
\* process_query answers at once
Begin(t, op, c, q, filters) ==
    /\ task[t].pc = "idle"
    /\ \E cid \in (IF c = None THEN FreshIds ELSE {c}) :
       \E r \in {Search(documents, loaded, fs, q, TOP_K)} :
          /\ documents' = r.documents
          /\ loaded' = r.loaded
          /\ kbop' = AfterSearch(r, q)
          /\ started' = started + 1
          /\ IF r.raised
             THEN \E k \in {AfterAnswer([IdleFrame EXCEPT !.op = op, !.cid = cid,
                                                          !.query = q, !.filters = filters],
                                         Returned(ProcessQueryExcept(cid), q, "none", <<>>,
                                                  "search", Stored(cid), Stored(cid)))} :
                     /\ task' = [task EXCEPT ![t] = k.frame]
                     /\ ret' = IF k.returns THEN [ret EXCEPT ![t] = k.ret] ELSE ret
                     /\ log' = [log EXCEPT ![cid] = @ \o Pair(q, MSG_TECHNICAL)]
                     /\ UNCHANGED <<lists, conversations>>
             ELSE \E h \in {IF conversations[cid] # 0 THEN conversations[cid]
                            ELSE FreshList(conversations, task)} :
                     /\ task' = [task EXCEPT ![t] =
                                   [IdleFrame EXCEPT !.pc = "generate", !.op = op,
                                                     !.cid = cid, !.query = q,
                                                     !.filters = filters,
                                                     !.results = r.results, !.hist = h,
                                                     !.prompt = BuildPrompt(q, Stored(cid))]]
                     /\ lists' = IF conversations[cid] # 0 THEN lists
                                 ELSE [lists EXCEPT ![h] = <<>>]
                     /\ UNCHANGED <<ret, log, conversations>>
    /\ UNCHANGED <<fs, catalog, sp, fn>>

\* a call of process_query(query, conversation_id)
ProcessQueryStart(t, c, q) == Begin(t, "chat", c, q, EmptyRecord)

\* a call of respond_and_recommend_properties(query, conversation_id, filters)
RecommendStart(t, c, q, filters) == Begin(t, "recommend", c, q, filters)

\* lines 361-406: from the return of _generate_response to the return of
\* process_query, and on to line 668 when respond_and_recommend_properties made
\* the call
ProcessQueryFinish(t, g) ==
    /\ task[t].pc = "generate"
    /\ \E f \in {task[t]} :
       \E response \in {GenerateResponse(g)} :
       \E extended \in {lists[f.hist] \o Pair(f.query, response)} :
       \E k \in {AfterAnswer(f, Returned(ChatResponse(response, f.cid, f.results,
                                             CalculateConfidence(f.results, response)),
                                          f.query, g.kind, f.results, "none",
                                          lists[f.hist], LastN(extended, HISTORY_LIMIT)))} :
       \* a new list object takes the last entries; the extended one stays
       \* reachable through the other turns that read it
       \E kept \in {FreshList([conversations EXCEPT ![f.cid] = 0],
                              [task EXCEPT ![t] = k.frame])} :
          /\ task' = [task EXCEPT ![t] = k.frame]
          /\ conversations' = [conversations EXCEPT ![f.cid] = kept]
          /\ lists' = Collect([[lists EXCEPT ![f.hist] = extended]
                                  EXCEPT ![kept] = LastN(extended, HISTORY_LIMIT)],
                              conversations', task')
          /\ ret' = IF k.returns THEN [ret EXCEPT ![t] = k.ret] ELSE ret
          /\ log' = [log EXCEPT ![f.cid] = @ \o Pair(f.query, response)]
    /\ UNCHANGED <<fs, catalog, documents, loaded, kbop, started, sp, fn>>

\* top_k of the search made while scoring (line 952)
MARKET_TOP_K == 3

\* lines 807-821: the requirements read from the reply of the extraction call;
\* without a JSON object in it, or with one json.loads rejects, the keywords of
\* the query decide
ExtractRequirements(response_text, query, properties) ==
    IF ObjectSpans(response_text) # {} /\ ~JsonLoads(FirstObject(response_text)).raised
    THEN JsonLoads(FirstObject(response_text))
    ELSE ExtractRequirementsFallback(query, properties)

\* `if filters:` (line 672)
HasFilters(filters) == \E k \in ReqKeys : filters[k].t # "absent"

\* which step of respond_and_recommend_properties raised, if one did
FailedStep(extracted, filtered_props, score_raised, recommended_listings) ==
    IF extracted.raised THEN "extraction"
    ELSE IF filtered_props.raised THEN "filter"
    ELSE IF score_raised THEN "scoring"
    ELSE IF recommended_listings.raised THEN "listing"
    ELSE "none"

\* lines 807-821 and 669-738: from the return of the extraction call to the
\* return of respond_and_recommend_properties. sims[i] is the ratio
\* SequenceMatcher gives for the i-th listing the filter kept.
ExtractFinish(t, g) ==
    /\ task[t].pc = "extract"
    /\ \E f \in {task[t]} :
       \E extracted \in {ExtractRequirements(GenerateResponse(g), f.query, f.properties)} :
       \E requirements \in {IF HasFilters(f.filters)
                            THEN MergeFilters(extracted.value, f.filters)
                            ELSE extracted.value} :
       \E filtered_props \in {IF extracted.raised THEN [raised |-> TRUE, value |-> <<>>]
                              ELSE ApplySemanticFilters(f.properties, requirements)} :
       \E score_raised \in {ScoreRaised(filtered_props.value, requirements)} :
       \* line 952: the search made for market context, its failure swallowed
       \E kb \in {Search(documents, loaded, fs, f.query, MARKET_TOP_K)} :
       \E parts \in {IF filtered_props.raised THEN <<>>
                     ELSE AllParts(filtered_props.value, f.query, requirements)} :
       \E sims \in [1..Len(parts) -> SeqSims] :
       \E scored \in {ScoreProperties(filtered_props.value, parts, sims)} :
       \E top_props \in {IF score_raised THEN <<>> ELSE TopProps(scored, MAX_RESULTS)} :
       \E recommended_listings \in {Recommendations(top_props)} :
       \E failed \in {FailedStep(extracted, filtered_props, score_raised,
                                 recommended_listings)} :
       \E base \in {[NoReturn EXCEPT !.kind = "recommend", !.conversation_id = f.cid,
                                     !.query = f.query, !.gen = g.kind,
                                     !.ai_response = [response |-> f.ai,
                                                      confidence |-> f.aiconf],
                                     !.response_text = GenerateResponse(g),
                                     !.requirements = requirements,
                                     !.filters = f.filters,
                                     !.extracted = extracted.value,
                                     !.filtered_props = filtered_props.value,
                                     !.top_props = top_props,
                                     !.loaded_properties = f.properties,
                                     !.properties =
                                         AnnotatedInPlace(f.properties, scored)]} :
          /\ task' = [task EXCEPT ![t] = IdleFrame]
          /\ ret' = [ret EXCEPT ![t] =
                       IF failed # "none" THEN RecommendExcept(base, failed)
                       ELSE Recommended(base, f.ai, recommended_listings.value,
                                        f.aiconf, "none")]
          /\ documents' = IF filtered_props.raised THEN documents ELSE kb.documents
          /\ loaded' = IF filtered_props.raised THEN loaded ELSE kb.loaded
          /\ kbop' = IF filtered_props.raised THEN kbop ELSE AfterSearch(kb, f.query)
    /\ UNCHANGED <<fs, catalog, conversations, lists, log, started, sp, fn>>

\* clear_conversation (lines 593-596), as DELETE /conversation/{id} calls it
ClearConversation(c) ==
    /\ conversations[c] # 0
    /\ conversations' = [conversations EXCEPT ![c] = 0]
    /\ lists' = Collect(lists, conversations', task)
    /\ log' = [log EXCEPT ![c] = <<>>]
    /\ UNCHANGED <<fs, catalog, documents, loaded, kbop, task, ret, started, sp, fn>>
-----------------------------------------------------------------------------
(* The helpers of the recommendation pipeline, each called on its own *)

SERVICED_APARTMENT ==
    <<"s","e","r","v","i","c","e","d"," ","a","p","a","r","t","m","e","n","t">>

\* the catalogs handed to the filter
FilterCatalogs ==
    {<<P_KAREN, P_WESTLANDS>>, <<P_UNPLACED, P_WESTLANDS>>, <<P_WESTLANDS, P_KAREN, P_UNTITLED>>}

\* requirement records: each filtered field null or set
FilterRequirements ==
    {EmptyRecord} \cup
    {[EmptyRecord EXCEPT !["location"] = location, !["property_type"] = property_type,
                         !["bedrooms"] = bedrooms, !["bathrooms"] = bathrooms,
                         !["min_price"] = min_price, !["max_price"] = max_price,
                         !["furnished"] = furnished] :
        location \in {JNull, JStr(<<"W","e","s","t","l","a","n","d","s">>)},
        property_type \in {JNull, JStr(<<"A","p","a","r","t","m","e","n","t">>),
                           JStr(SERVICED_APARTMENT)},
        bedrooms \in {JNull, JNum(3)},
        bathrooms \in {JNull, JNum(3)},
        min_price \in {JNull, JNum(10000000)},
        max_price \in {JNull, JNum(10000000)},
        furnished \in {JNull, JBool(TRUE)}}

\* the fields _apply_semantic_filters reads (lines 892-928)
FILTER_FIELDS ==
    {"location", "property_type", "bedrooms", "bathrooms", "min_price", "max_price",
     "furnished"}

NoResult == [raised |-> FALSE, value |-> <<>>]

FilterFrame(properties, requirements) ==
    [op |-> "filter", pc |-> "call", properties |-> properties,
     requirements |-> requirements, result |-> NoResult,
     field |-> "none", relaxed |-> NoResult]

\* _apply_semantic_filters(properties, requirements) runs and returns (or raises)
FilterReturn ==
    /\ fn.op = "filter"
    /\ fn.pc = "call"
    /\ fn' = [fn EXCEPT !.pc = "done",
                        !.result = ApplySemanticFilters(fn.properties, fn.requirements)]
    /\ UNCHANGED <<kbVars, agentVars, catalog, sp>>

\* the same listings filtered again, with one field of the record set to None
FilterRelaxed(field) ==
    /\ fn.op = "filter"
    /\ fn.pc = "done"
    /\ fn' = [fn EXCEPT !.pc = "compared", !.field = field,
                        !.relaxed = ApplySemanticFilters(fn.properties,
                                        [fn.requirements EXCEPT ![field] = JNull])]
    /\ UNCHANGED <<kbVars, agentVars, catalog, sp>>

\* listings that differ in their location only: the title names both suburbs
TWIN_TITLE ==
    <<"K","a","r","e","n"," ","W","e","s","t","l","a","n","d","s"," ","h","o","m","e">>

T_KAREN == [P_KAREN EXCEPT !.id = "t1", !.title = TWIN_TITLE]

T_WESTLANDS ==
    [T_KAREN EXCEPT !.id = "t2",
        !.location = Location(<<"W","e","s","t","l","a","n","d","s">>, <<"N","a","i","r","o","b","i">>)]

T_NOWHERE == [T_KAREN EXCEPT !.id = "t3", !.location = Location(<<>>, <<>>)]

\* a cheap listing whose whole text is "karen house"
P_IDEAL ==
    [P_KAREN EXCEPT !.id = "p5", !.title = <<"K","a","r","e","n"," ","h","o","u","s","e">>,
        !.description = <<>>, !.amenities = <<<<"h","o","u","s","e">>>>, !.price = 1000000]

KAREN_HOUSE == <<"k","a","r","e","n"," ","h","o","u","s","e">>

CALM == <<"c","a","l","m">>

\* the listings handed to the scorer
ScoreCatalogs ==
    {<<T_KAREN, T_WESTLANDS, T_NOWHERE>>, <<P_IDEAL, P_KAREN>>, <<P_KAREN, P_WESTLANDS>>}

ScoreQueries == {REC_QUERY, KAREN_HOUSE, CALM}

\* requirement records: each scored field unset or set, matching or not
ScoreRequirements ==
    {[EmptyRecord EXCEPT !["location"] = location, !["property_type"] = property_type,
                         !["preferences"] = preferences,
                         !["price_range_indicator"] = price_range_indicator,
                         !["amenities_mentioned"] = amenities_mentioned] :
        location \in {JNull, JStr(<<"K","a","r","e","n">>),
                      JStr(<<"n","a","i","r","o","b","i">>)},
        property_type \in {JNull, JStr(<<"h","o","u","s","e">>), JStr(<<"s","t","u","d","i","o">>)},
        preferences \in {JAbsent, JList(<<<<"k","a","r","e","n">>>>),
                         JList(<<<<"p","o","o","l">>, <<"s","a","u","n","a">>>>)},
        price_range_indicator \in {JNull, JStr(<<"a","f","f","o","r","d","a","b","l","e">>),
                                   JStr(<<"l","u","x","u","r","y">>)},
        amenities_mentioned \in {JAbsent, JList(<<<<"h","o","u","s","e">>>>),
                                 JList(<<<<"s","a","u","n","a">>>>)}}

ScoreFrame(properties, query, requirements) ==
    [op |-> "score", pc |-> "call", properties |-> properties, query |-> query,
     requirements |-> requirements, sims |-> <<>>, parts |-> <<>>, result |-> NoResult]

\* _score_properties_semantically(properties, query, requirements) runs and
\* returns (lines 945-1107): the search for market context, its failure
\* swallowed, then the loop. sims[i] is the ratio SequenceMatcher gives for the
\* i-th listing.
ScoreReturn ==
    /\ fn.op = "score"
    /\ fn.pc = "call"
    /\ \E kb \in {Search(documents, loaded, fs, fn.query, MARKET_TOP_K)} :
       \E raised \in {ScoreRaised(fn.properties, fn.requirements)} :
       \E parts \in {AllParts(fn.properties, fn.query, fn.requirements)} :
       \E sims \in [1..Len(parts) -> SeqSims] :
       \E scored \in {ScoreProperties(fn.properties, parts, sims)} :
          /\ fn' = [fn EXCEPT !.pc = "done", !.sims = sims, !.parts = parts,
                       !.properties = AnnotatedInPlace(fn.properties, scored),
                       !.result = [raised |-> raised,
                                   value |-> IF raised THEN <<>> ELSE scored]]
          /\ documents' = kb.documents
          /\ loaded' = kb.loaded
          /\ kbop' = AfterSearch(kb, fn.query)
    /\ UNCHANGED <<fs, catalog, agentVars, sp>>

\* match scores around the cut, in thousandths
SelectScores == {149, 150, 600}

SELECT_IDS == <<"s1", "s2", "s3", "s4", "s5", "s6">>

\* scored listings in catalog order: the i-th has the i-th id
ScoredLists ==
    UNION {{[i \in 1..n |-> [P_KAREN EXCEPT !.id = SELECT_IDS[i], !.match_score = m[i],
                                            !.missing = @ \ {"match_score", "score_breakdown"}]] :
               m \in [1..n -> SelectScores]} : n \in 0..MaxListings}

SelectFrame(scored, max_results) ==
    [op |-> "select", pc |-> "call", scored |-> scored, max_results |-> max_results,
     result |-> <<>>]

\* step 6 of respond_and_recommend_properties (lines 692-693) on its own
SelectReturn ==
    /\ fn.op = "select"
    /\ fn.pc = "call"
    /\ fn' = [fn EXCEPT !.pc = "done", !.result = TopProps(fn.scored, fn.max_results)]
    /\ UNCHANGED <<kbVars, agentVars, catalog, sp>>


-----------------------------------------------------------------------------
(* _extract_requirements_semantically called on its own *)

TWO_BED_CHEAP == <<"2"," ","b","e","d"," ","c","h","e","a","p">>

ExtractQueries == {REC_QUERY, QUERY_2, KAREN_HOUSE, CALM, TWO_BED_CHEAP}

\* the listings of every catalog file that parses
ExtractCatalogs == {Catalogs[i].listings : i \in {k \in 1..Len(Catalogs) : Catalogs[k].parses}}

NoGen == [kind |-> "none", text |-> <<>>]

ExtractFrame(query, properties) ==
    [op |-> "extract", pc |-> "call", query |-> query, properties |-> properties,
     gen |-> NoGen, response_text |-> <<>>, result |-> NoResult]

\* lines 761-806: the prompt is built from the listings, then the call waits for
\* _generate_response; a null location raises while the prompt is built
ExtractCall ==
    /\ fn.op = "extract"
    /\ fn.pc = "call"
    /\ fn' = IF \E i \in 1..Len(fn.properties) : ~HasLocationObject(fn.properties[i])
             THEN [fn EXCEPT !.pc = "done", !.result = [raised |-> TRUE, value |-> EmptyRecord]]
             ELSE [fn EXCEPT !.pc = "generate"]
    /\ UNCHANGED <<kbVars, agentVars, catalog, sp>>

\* lines 807-821: from the return of _generate_response to the return of the call
ExtractReturn(g) ==
    /\ fn.op = "extract"
    /\ fn.pc = "generate"
    /\ \E response_text \in {GenerateResponse(g)} :
          fn' = [fn EXCEPT !.pc = "done", !.gen = g, !.response_text = response_text,
                           !.result = ExtractRequirements(response_text, fn.query,
                                                          fn.properties)]
    /\ UNCHANGED <<kbVars, agentVars, catalog, sp>>

-----------------------------------------------------------------------------
(* _generate_response and _calculate_confidence as process_query calls them
   (lines 361 and 380) *)

ERR_API_KEY == <<"I","n","v","a","l","i","d"," ","A","P","I"," ","k","e","y">>

ERR_QUOTA == <<"Q","u","o","t","a"," ","e","x","c","e","e","d","e","d">>

ERR_NETWORK ==
    <<"N","e","t","w","o","r","k"," ","i","s"," ","u","n","r","e","a","c","h","a","b","l","e">>

ERR_500 ==
    <<"S","e","r","v","e","r"," ","e","r","r","o","r"," ","'","5","0","0","'">>

\* a completion of n characters
Filler(n) == [i \in 1..n |-> "x"]

\* completions below, at and above the length that counts in full
LongReplies == {[kind |-> "ok", text |-> Filler(n)] : n \in {499, 500, 650}}

AnswerOutcomes ==
    GenOutcomes \cup LongReplies \cup
    {[kind |-> "error", text |-> e] : e \in {ERR_API_KEY, ERR_QUOTA, ERR_NETWORK, ERR_500}}

\* Jaccard scores above the threshold, as fractions, highest first
ANSWER_SCORES == <<<<1, 1>>, <<3, 7>>, <<1, 3>>>>

\* what search hands to process_query: at most top_k results, best first
AnswerResults ==
    UNION {{[i \in 1..n |-> [content |-> DOC_A, source |-> "a.txt",
                             score |-> ANSWER_SCORES[s[i]]]] :
              s \in {r \in [1..n -> 1..Len(ANSWER_SCORES)] :
                        \A i \in 1..(n - 1) : r[i] <= r[i + 1]}} :
           n \in 0..TOP_K}

AnswerFrame(search_results) ==
    [op |-> "answer", pc |-> "generate", search_results |-> search_results,
     gen |-> NoGen, response |-> <<>>, confidence |-> 0]

\* line 361: _generate_response comes back
GenerateReturn(g) ==
    /\ fn.op = "answer"
    /\ fn.pc = "generate"
    /\ fn' = [fn EXCEPT !.pc = "confidence", !.gen = g, !.response = GenerateResponse(g)]
    /\ UNCHANGED <<kbVars, agentVars, catalog, sp>>

\* line 380: the confidence of the answer
ConfidenceReturn ==
    /\ fn.op = "answer"
    /\ fn.pc = "confidence"
    /\ fn' = [fn EXCEPT !.pc = "done",
                        !.confidence = CalculateConfidence(fn.search_results, fn.response)]
    /\ UNCHANGED <<kbVars, agentVars, catalog, sp>>
-----------------------------------------------------------------------------
(* One call of _split_text, pass by pass *)

SplitAlphabet == {"a", " ", "."}

SplitTexts == UNION {[1..n -> SplitAlphabet] : n \in 0..MaxTextLen}

\* (chunk_size, overlap): small windows, and the defaults
SplitParams == {<<2, 0>>, <<3, 1>>, <<CHUNK_SIZE, CHUNK_OVERLAP>>}

\* no helper called on its own
NoHelper == [op |-> "none"]

NoSplit ==
    [pc |-> "none", text |-> <<>>, chunk_size |-> CHUNK_SIZE, overlap |-> CHUNK_OVERLAP,
     start |-> 0, chunks |-> <<>>]

\* lines 133-137
SplitCall ==
    /\ sp.pc = "call"
    /\ sp' = IF Len(sp.text) <= sp.chunk_size
             THEN [sp EXCEPT !.pc = "done", !.chunks = SplitShort(sp.text)]
             ELSE [sp EXCEPT !.pc = "loop", !.start = 0, !.chunks = <<>>]
    /\ UNCHANGED <<kbVars, agentVars, catalog, fn>>

\* lines 139-153
SplitIterate ==
    /\ sp.pc = "loop"
    /\ sp.start < Len(sp.text)
    /\ LET p == SplitPass(sp.text, sp.chunk_size, sp.overlap, sp.start, sp.chunks)
       IN  sp' = [sp EXCEPT !.start = p.start, !.chunks = p.chunks]
    /\ UNCHANGED <<kbVars, agentVars, catalog, fn>>

\* line 155
SplitReturn ==
    /\ sp.pc = "loop"
    /\ sp.start >= Len(sp.text)
    /\ sp' = [sp EXCEPT !.pc = "done"]
    /\ UNCHANGED <<kbVars, agentVars, catalog, fn>>

-----------------------------------------------------------------------------
(* Specifications *)

\* the fields of a SimpleRealEstateAgent just constructed (lines 29-31, 240-253),
\* with no call made yet
Constructed ==
    /\ documents = <<>>
    /\ loaded = FALSE
    /\ kbop = NoCall
    /\ conversations = [c \in AllConvIds |-> 0]
    /\ lists = [i \in ListIds |-> <<>>]
    /\ task = [t \in Tasks |-> IdleFrame]
    /\ ret = [t \in Tasks |-> NoReturn]
    /\ log = [c \in AllConvIds |-> <<>>]
    /\ started = 0
    /\ sp = NoSplit
    /\ fn = NoHelper

\* the state after construction: settings.py has made the corpus root by then
\* (lines 72-73), and the catalog is in place
Init ==
    /\ fs \in {d \in FsStates : d.root}
    /\ catalog = 1
    /\ Constructed

\* a completion, and an authentication failure
SeqGen == {g \in GenOutcomes : g.text \in {GEN_TEXT, ERR_401}}

SeqQueries == {QUERY_1, QUERY_2}

\* the agent serving concurrent process_query requests
Next ==
    \/ started < MaxCalls /\
         \E t \in Tasks, c \in ConvIds \cup {None}, q \in SeqQueries :
            ProcessQueryStart(t, c, q)
    \/ \E t \in Tasks, g \in GenOutcomes : ProcessQueryFinish(t, g)
    \/ \E c \in AllConvIds : ClearConversation(c)
    \/ Reload

Spec == Init /\ [][Next]_vars

\* one client, one conversation, one turn after the other
NextSeq ==
    \/ started < MaxSeqTurns /\ \E q \in SeqQueries : ProcessQueryStart(1, "c1", q)
    \/ \E g \in SeqGen : ProcessQueryFinish(1, g)

SpecSeq == Init /\ [][NextSeq]_vars

\* what the extraction call can come back with
ExtractOutcomes ==
    SeqGen \cup {[kind |-> "ok", text |-> reply] :
                    reply \in {JSON_WESTLANDS, JSON_MALFORMED, JSON_BEDROOMS_TEXT,
                               JSON_NULL_PREFERENCES}}

\* the filters a request carries: none, a price ceiling, or a property type
\* with a null location
FilterSets ==
    {EmptyRecord, [EmptyRecord EXCEPT !["max_price"] = JNum(10000000)],
     [EmptyRecord EXCEPT !["location"] = JNull,
                         !["property_type"] = JStr(<<"a","p","a","r","t","m","e","n","t">>)]}

RecQueries == {REC_QUERY, QUERY_2}

\* one client calling either handler
NextRec ==
    \/ started < MaxRecCalls /\
         \E c \in ConvIds \cup {None}, q \in RecQueries : ProcessQueryStart(1, c, q)
    \/ started < MaxRecCalls /\
         \E c \in ConvIds \cup {None}, q \in RecQueries, fl \in FilterSets :
            RecommendStart(1, c, q, fl)
    \/ \E g \in SeqGen : ProcessQueryFinish(1, g)
    \/ \E g \in ExtractOutcomes : ExtractFinish(1, g)

\* the agent constructed with properties_data.json in any of its states
InitRec ==
    /\ fs \in {d \in FsStates : d.root}
    /\ catalog \in 1..Len(Catalogs)
    /\ Constructed

SpecRec == InitRec /\ [][NextRec]_vars

\* the knowledge base alone
NextKB ==
    \/ Reload
    \/ \E q \in Queries : SearchCall(q)
    \/ CorpusChange

SpecKB == Init /\ [][NextKB]_vars

\* the chunker alone
InitSplit ==
    /\ fs = [root |-> TRUE, files |-> CorpusKilimani]
    /\ catalog = 1
    /\ documents = <<>>
    /\ loaded = FALSE
    /\ kbop = NoCall
    /\ conversations = [c \in AllConvIds |-> 0]
    /\ lists = [i \in ListIds |-> <<>>]
    /\ task = [t \in Tasks |-> IdleFrame]
    /\ ret = [t \in Tasks |-> NoReturn]
    /\ log = [c \in AllConvIds |-> <<>>]
    /\ started = 0
    /\ fn = NoHelper
    /\ \E text \in SplitTexts, p \in SplitParams :
          sp = [pc |-> "call", text |-> text, chunk_size |-> p[1], overlap |-> p[2],
                start |-> 0, chunks |-> <<>>]

NextSplit == SplitCall \/ SplitIterate \/ SplitReturn

SpecSplit == InitSplit /\ [][NextSplit]_vars

\* the state of an agent that only lends its helpers
HelperInit ==
    /\ fs = [root |-> TRUE, files |-> CorpusKilimani]
    /\ catalog = 1
    /\ documents = <<>>
    /\ loaded = FALSE
    /\ kbop = NoCall
    /\ conversations = [c \in AllConvIds |-> 0]
    /\ lists = [i \in ListIds |-> <<>>]
    /\ task = [t \in Tasks |-> IdleFrame]
    /\ ret = [t \in Tasks |-> NoReturn]
    /\ log = [c \in AllConvIds |-> <<>>]
    /\ started = 0
    /\ sp = NoSplit

\* the filter alone
InitFilter ==
    /\ HelperInit
    /\ \E properties \in FilterCatalogs, requirements \in FilterRequirements :
          fn = FilterFrame(properties, requirements)

NextFilter ==
    \/ FilterReturn
    \/ \E field \in FILTER_FIELDS : FilterRelaxed(field)

SpecFilter == InitFilter /\ [][NextFilter]_vars

\* the scorer alone
InitScore ==
    /\ HelperInit
    /\ \E properties \in ScoreCatalogs, query \in ScoreQueries,
          requirements \in ScoreRequirements :
          fn = ScoreFrame(properties, query, requirements)

NextScore == ScoreReturn

SpecScore == InitScore /\ [][NextScore]_vars

\* the selection step alone; max_results as a caller can ask for it
InitSelect ==
    /\ HelperInit
    /\ \E scored \in ScoredLists, max_results \in 0..MAX_RESULTS :
          fn = SelectFrame(scored, max_results)

NextSelect == SelectReturn

SpecSelect == InitSelect /\ [][NextSelect]_vars


\* every outcome of the HTTP call, and the replies that carry an object
ExtractReplies == GenOutcomes \cup ExtractOutcomes

\* the requirement extraction alone
InitExtract ==
    /\ HelperInit
    /\ \E query \in ExtractQueries, properties \in ExtractCatalogs :
          fn = ExtractFrame(query, properties)

NextExtract ==
    \/ ExtractCall
    \/ \E g \in ExtractReplies : ExtractReturn(g)

SpecExtract == InitExtract /\ [][NextExtract]_vars

\* the generation call and the confidence of its answer alone
InitAnswer ==
    /\ HelperInit
    /\ \E search_results \in AnswerResults : fn = AnswerFrame(search_results)

NextAnswer ==
    \/ \E g \in AnswerOutcomes : GenerateReturn(g)
    \/ ConfidenceReturn

SpecAnswer == InitAnswer /\ [][NextAnswer]_vars

\* one client on one conversation, turn after turn, who may clear it between
\* turns, while the corpus directory changes under the agent
NextSession ==
    \/ started < MaxSessionTurns /\ \E q \in SeqQueries : ProcessQueryStart(1, "c1", q)
    \/ \E g \in SeqGen : ProcessQueryFinish(1, g)
    \/ task[1].pc = "idle" /\ ClearConversation("c1")
    \/ CorpusChange

SpecSession == Init /\ [][NextSession]_vars

\* what each of two clients asks
RaceQuery == <<QUERY_1, QUERY_2>>

RaceGen == {g \in GenOutcomes : g.text = GEN_TEXT}

\* two clients on one conversation whose turns may overlap, and who may clear
\* it at any time
NextRace ==
    \/ started < MaxRaceTurns /\ \E t \in Tasks : ProcessQueryStart(t, "c1", RaceQuery[t])
    \/ \E t \in Tasks, g \in RaceGen : ProcessQueryFinish(t, g)
    \/ ClearConversation("c1")

InitRace == HelperInit /\ fn = NoHelper

SpecRace == InitRace /\ [][NextRace]_vars

\* (chunk_size, overlap) with the overlap below, at and above the window size
StrideParams == {<<1, 0>>, <<2, 1>>, <<2, 2>>, <<2, 3>>}

\* the chunker alone, over parameter pairs with chunk_size > 0 and overlap >= 0; a
\* call that makes no progress is followed for as many passes as the longest
\* text has characters
InitStride ==
    /\ fs = [root |-> TRUE, files |-> CorpusKilimani]
    /\ catalog = 1
    /\ documents = <<>>
    /\ loaded = FALSE
    /\ kbop = NoCall
    /\ conversations = [c \in AllConvIds |-> 0]
    /\ lists = [i \in ListIds |-> <<>>]
    /\ task = [t \in Tasks |-> IdleFrame]
    /\ ret = [t \in Tasks |-> NoReturn]
    /\ log = [c \in AllConvIds |-> <<>>]
    /\ started = 0
    /\ fn = NoHelper
    /\ \E text \in SplitTexts, p \in StrideParams :
          sp = [pc |-> "call", text |-> text, chunk_size |-> p[1], overlap |-> p[2],
                start |-> 0, chunks |-> <<>>]

NextStride ==
    \/ SplitCall
    \/ Len(sp.chunks) <= MaxTextLen /\ sp.start >= 0 - MaxTextLen /\ SplitIterate
    \/ SplitReturn

SpecStride == InitStride /\ [][NextStride]_vars
-----------------------------------------------------------------------------
(* Claims *)

AllIdle == \A t \in Tasks : task[t].pc = "idle"

\* C1: after n completed, non-overlapping process_query turns on a conversation
\* id, the stored history is the last min(10, 2n) entries of the full
\* user/assistant entry sequence of those turns, in order.
C1_HistoryIsLastTen ==
    \A c \in AllConvIds :
        AllIdle => Stored(c) = LastN(log[c], HISTORY_LIMIT)

\* C2: every process_query call that returns has appended exactly one user entry
\* holding the query and one assistant entry holding the returned text to the
\* history of its conversation id, also when the search or load raised.
C2_EveryTurnAppendsItsPair ==
    \A t \in Tasks :
        ret[t].kind = "chat" =>
            ret[t].after = LastN(ret[t].before \o Pair(ret[t].query, ret[t].response),
                                 HISTORY_LIMIT)

\* C3: when the generation call fails, process_query returns confidence 0.0 and
\* an empty sources list, however many search results were found.
C3_FailedGenerationIsDegraded ==
    \A t \in Tasks :
        (ret[t].kind = "chat" /\ ret[t].gen = "error") =>
            (ret[t].confidence = 0 /\ ret[t].sources = <<>>)

\* a handler has answered its caller
Answered(t) == ret[t].kind \in {"chat", "recommend"}

\* C4: process_query and respond_and_recommend_properties never raise to their
\* caller: whatever fails (knowledge load, search, generation, catalog read,
\* requirement extraction, filtering, scoring), the value returned carries a
\* text, a conversation id and a confidence in [0,1].
C4_HandlersAlwaysAnswer ==
    \A t \in Tasks :
        Answered(t) =>
            /\ ~ret[t].raised
            /\ ret[t].response # <<>>
            /\ ret[t].conversation_id \in AllConvIds
            /\ ret[t].confidence \in 0..100

\* a recommendation call whose filter step raised on an ill-typed requirement
\* has been answered
C4_Witness ==
    \E t \in Tasks :
        /\ ret[t].kind = "recommend"
        /\ ret[t].failed = "filter"
        /\ ret[t].response = MSG_RECOMMEND
        /\ ret[t].confidence = 0

\* C5: a search on an unloaded store whose triggered load fails returns an empty
\* result sequence and does not raise.
C5_SearchSwallowsLoadFailure ==
    (kbop.op = "search" /\ ~kbop.wasLoaded /\ kbop.loadFailed) =>
        (~kbop.raised /\ kbop.results = <<>>)

\* C6: after a load_documents call that fails partway (first load or reload),
\* the store is UNLOADED, so no partial document set is visible to a search.
C6_FailedLoadLeavesUnloaded ==
    (kbop.op = "load" /\ kbop.raised /\ kbop.reset) => ~loaded

\* C7: a search served around a reload observes the complete old document set
\* or the complete new one, never an empty or partly rebuilt list.
C7_SearchSeesCompleteSet ==
    (kbop.op = "search" /\ ~kbop.raised) => kbop.scanned = kbop.published

\* C8: every SearchResult returned by search has a score in [0,1] that is not
\* below settings.similarity_threshold.
C8_ScoresRespectConfiguredThreshold ==
    kbop.op = "search" =>
        \A i \in 1..Len(kbop.results) :
            /\ FracLE(<<0, 1>>, kbop.results[i].score)
            /\ FracLE(kbop.results[i].score, <<1, 1>>)
            /\ FracLE(SIMILARITY_THRESHOLD, kbop.results[i].score)

\* the store holds exactly the one-chunk Kilimani corpus and was asked the
\* scenario's query
KilimaniScenario ==
    /\ kbop.op = "search"
    /\ ~kbop.raised
    /\ kbop.query = KILIMANI_QUERY
    /\ Len(kbop.scanned) = 1
    /\ kbop.scanned[1].content = KILIMANI_DOC

\* |query words /\ chunk words| / |query words \/ chunk words|
Jaccard(query, content) ==
    LET qw == FindWords(Lower(query))
        cw == FindWords(Lower(content))
    IN  <<Cardinality(qw \cap cw), Cardinality(qw \cup cw)>>

\* C9 as stated: the Kilimani chunk is the only result for "apartment prices in
\* Kilimani", with the word-overlap score, which is above 0.1.
C9_KilimaniChunkIsReturned ==
    KilimaniScenario =>
        /\ Len(kbop.results) = 1
        /\ kbop.results[1].content = KILIMANI_DOC
        /\ kbop.results[1].score = Jaccard(KILIMANI_QUERY, KILIMANI_DOC)
        /\ FracGT(kbop.results[1].score, <<1, 10>>)

\* C9 as amended: the word-overlap score of the Kilimani chunk for that query
\* is 1/12, which is not above 0.1, so the search returns no result.
C9_KilimaniChunkIsBelowCut ==
    KilimaniScenario =>
        /\ Jaccard(KILIMANI_QUERY, KILIMANI_DOC) = <<1, 12>>
        /\ kbop.results = <<>>

C9_Witness == KilimaniScenario

\* C10: for a text no longer than chunk_size, split returns exactly one chunk,
\* the text with leading and trailing whitespace removed.
C10_ShortTextIsOneTrimmedChunk ==
    (sp.pc = "done" /\ Len(sp.text) <= sp.chunk_size) =>
        sp.chunks = <<Strip(sp.text)>>

\* the positions of the input listings a filter result holds
KeptBy(r) ==
    {i \in 1..Len(fn.properties) :
        \E k \in 1..Len(r.value) : r.value[k] = fn.properties[i]}

\* C11: a null requirement field never removes a listing: setting any one
\* filtered field to null only keeps or adds listings in the filter output (and
\* makes no call fail that succeeded), and a record with every field null or
\* unset returns the whole input list.
C11_NullFieldNeverRemoves ==
    /\ (fn.op = "filter" /\ fn.pc = "compared") =>
          /\ fn.relaxed.raised => fn.result.raised
          /\ ~fn.result.raised => KeptBy(fn.result) \subseteq KeptBy(fn.relaxed)
    /\ (fn.op = "filter" /\ fn.pc # "call"
           /\ \A k \in FILTER_FIELDS : IsNone(fn.requirements[k])) =>
          (~fn.result.raised /\ fn.result.value = fn.properties)

\* nulling the location of a record brought back a listing the filter had dropped
C11_Witness ==
    /\ fn.op = "filter"
    /\ fn.pc = "compared"
    /\ fn.field = "location"
    /\ ~IsNone(fn.requirements["location"])
    /\ ~fn.result.raised
    /\ KeptBy(fn.result) # KeptBy(fn.relaxed)

\* only the property type of the record is set
OnlyTypeSet ==
    /\ fn.op = "filter"
    /\ fn.pc # "call"
    /\ Truthy(fn.requirements["property_type"])
    /\ \A k \in FILTER_FIELDS \ {"property_type"} : IsNone(fn.requirements[k])

\* C12: the filter keeps a listing on the type field when the required type is
\* contained in the listing's type or the listing's type is contained in the
\* required type, case-insensitively.
C12_TypeMatchesEitherDirection ==
    OnlyTypeSet =>
        /\ ~fn.result.raised
        /\ \A i \in 1..Len(fn.properties) :
              LET req_type == Lower(fn.requirements["property_type"].v)
                  prop_type == Lower(fn.properties[i].property_type)
              IN  (Contains(req_type, prop_type) \/ Contains(prop_type, req_type))
                     => i \in KeptBy(fn.result)

\* the scorer has returned its scored listings
Scored == fn.op = "score" /\ fn.pc = "done" /\ ~fn.result.raised

\* C13: every matchScore the scorer assigns lies in [0,1] (0..1000
\* thousandths), also where the location and type penalties apply and where
\* every component is at its maximum.
C13_MatchScoreInUnitRange ==
    Scored =>
        \A i \in 1..Len(fn.result.value) :
            fn.result.value[i].match_score \in 0..1000

\* a listing carrying both penalties was scored, its negative sum clamped to 0
C13_Witness ==
    /\ Scored
    /\ \E i \in 1..Len(fn.result.value) :
          /\ fn.result.value[i].score_breakdown.location < 0
          /\ fn.result.value[i].score_breakdown.property_type < 0
          /\ fn.result.value[i].score_breakdown.semantic_similarity
               + fn.result.value[i].score_breakdown.location
               + fn.result.value[i].score_breakdown.property_type
               + fn.result.value[i].score_breakdown.preferences
               + fn.result.value[i].score_breakdown.price
               + fn.result.value[i].score_breakdown.amenities < 0
          /\ fn.result.value[i].match_score = 0

\* the listing's suburb is the required location
SuburbIsRequired(prop, requirements) ==
    Lower(prop.location.suburb) = Lower(requirements["location"].v)

\* the required location is found neither in the listing's suburb nor in its city
MatchesNoPlace(prop, requirements) ==
    /\ ~SuburbIsRequired(prop, requirements)
    /\ ~Contains(Lower(requirements["location"].v), Lower(prop.location.suburb))
    /\ ~Contains(Lower(requirements["location"].v), Lower(prop.location.city))

\* the components of listings i and j other than location are equal
SameButLocation(i, j) ==
    /\ fn.sims[i] = fn.sims[j]
    /\ fn.parts[i].jaccard_sim = fn.parts[j].jaccard_sim
    /\ fn.parts[i].type_score = fn.parts[j].type_score
    /\ fn.parts[i].preference_score = fn.parts[j].preference_score
    /\ fn.parts[i].price_score = fn.parts[j].price_score
    /\ fn.parts[i].amenities_score = fn.parts[j].amenities_score

\* listing i is in the required suburb, listing j in no required place, and
\* nothing else tells them apart
OnlyOneMatchesLocation(i, j) ==
    /\ Truthy(fn.requirements["location"])
    /\ SuburbIsRequired(fn.properties[i], fn.requirements)
    /\ MatchesNoPlace(fn.properties[j], fn.requirements)
    /\ SameButLocation(i, j)

\* C14: of two listings whose components other than location are equal, the one
\* whose suburb equals the required location gets a strictly greater matchScore
\* than the one matching neither suburb nor city, after clamping and rounding.
C14_LocationMatchScoresHigher ==
    Scored =>
        \A i, j \in 1..Len(fn.result.value) :
            OnlyOneMatchesLocation(i, j) =>
                fn.result.value[i].match_score > fn.result.value[j].match_score

\* such a pair was scored, the listing in the wrong place clamped to 0
C14_Witness ==
    /\ Scored
    /\ \E i, j \in 1..Len(fn.result.value) :
          /\ OnlyOneMatchesLocation(i, j)
          /\ fn.result.value[j].score_breakdown.location < 0
          /\ fn.result.value[j].match_score = 0
          /\ fn.result.value[i].match_score > 0

\* the catalog position of a selected listing
CatalogPos(prop) == CHOOSE i \in 1..Len(fn.scored) : fn.scored[i].id = prop.id

\* listing a goes before listing b: higher score, or equal score and earlier
\* in the catalog
GoesBefore(a, b) ==
    \/ a.match_score > b.match_score
    \/ a.match_score = b.match_score /\ CatalogPos(a) < CatalogPos(b)

\* the positions of the listings at or above 0.15
Survivors == {i \in 1..Len(fn.scored) : fn.scored[i].match_score >= 150}

\* C15: listings with matchScore below 0.15 are discarded, the others come back
\* in descending matchScore order, ties in catalog order, and at most
\* max_results of them: the first max_results of that order.
C15_SelectionIsThresholdedSortedCapped ==
    (fn.op = "select" /\ fn.pc = "done") =>
        /\ \A k \in 1..Len(fn.result) : CatalogPos(fn.result[k]) \in Survivors
        /\ \A k \in 1..Len(fn.result) : fn.result[k] = fn.scored[CatalogPos(fn.result[k])]
        /\ \A a, b \in 1..Len(fn.result) :
              a < b => GoesBefore(fn.result[a], fn.result[b])
        /\ Len(fn.result) = Min(fn.max_results, Cardinality(Survivors))
        /\ \A i \in Survivors :
              (\A k \in 1..Len(fn.result) : fn.result[k].id # fn.scored[i].id) =>
                  \A k \in 1..Len(fn.result) : GoesBefore(fn.result[k], fn.scored[i])

\* four listings, one below the cut, a tie among the others, two asked for
C15_Witness ==
    /\ fn.op = "select"
    /\ fn.pc = "done"
    /\ fn.max_results = 2
    /\ Len(fn.scored) = 4
    /\ Cardinality(Survivors) = 3
    /\ fn.scored[1].match_score = 149
    /\ fn.scored[2].match_score = 150
    /\ fn.scored[3].match_score = 600
    /\ fn.scored[4].match_score = 600
    /\ Len(fn.result) = 2
    /\ fn.result[1].id = "s3"
    /\ fn.result[2].id = "s4"

\* respond_and_recommend_properties returned after failing to load the catalog
CatalogFailed(t) ==
    /\ ret[t].kind = "recommend"
    /\ ret[t].failed \in {"catalog missing", "catalog corrupt"}

\* the conversational answer with the note, no listings, the answer's confidence
PartialResponse(r) ==
    /\ r.response = r.ai_response.response \o NOTE_UNAVAILABLE
    /\ r.recommended_properties = <<>>
    /\ r.confidence = r.ai_response.confidence

\* C16: when the catalog file is missing or does not parse,
\* respond_and_recommend_properties returns the conversational text followed by
\* the unavailability note, no recommendations, and the confidence of the
\* conversational answer.
C16_CatalogFailureGivesPartialResponse ==
    \A t \in Tasks : CatalogFailed(t) => PartialResponse(ret[t])

\* the missing catalog alone does give the partial response
C16_MissingCatalogKeepsAnswer ==
    \A t \in Tasks :
        (CatalogFailed(t) /\ ret[t].failed = "catalog missing") => PartialResponse(ret[t])

\* the extraction call came back from a generation call that failed, or whose
\* reply holds no object json.loads accepts
Extracted ==
    /\ fn.op = "extract"
    /\ fn.pc = "done"
    /\ fn.gen.kind # "none"

NoParseableObject(text) ==
    \A s \in ObjectSpans(text) : JsonLoads(SubSeq(text, s[1], s[2])).raised

NothingExtracted ==
    Extracted /\ (fn.gen.kind = "error" \/ NoParseableObject(fn.response_text))

\* the listings whose suburb the lower-cased query holds
NamedSuburbs(query_lower, properties) ==
    {i \in 1..Len(properties) :
        /\ HasLocationObject(properties[i])
        /\ LocationGet(properties[i], "suburb") # <<>>
        /\ Contains(Lower(LocationGet(properties[i], "suburb")), query_lower)}

\* a field is null, and a list empty, when the query holds no signal for it
NullWithoutSignal(value, query_lower, properties) ==
    /\ \A k \in {"bathrooms", "min_price", "max_price", "furnished", "transaction_type",
                 "urgency"} : value[k] = JNull
    /\ value["amenities_mentioned"] = JList(<<>>)
    /\ NamedSuburbs(query_lower, properties) = {} => value["location"] = JNull
    /\ ~AnyIn(PROPERTY_TYPES, query_lower) => value["property_type"] = JNull
    /\ (\A i \in 1..Len(query_lower) : query_lower[i] \notin Digits)
          => value["bedrooms"] = JNull
    /\ ~AnyIn(AFFORDABLE_WORDS, query_lower) /\ ~AnyIn(LUXURY_WORDS, query_lower)
          => value["price_range_indicator"] = JNull
    /\ ~AnyIn(FAMILY_WORDS, query_lower) /\ ~AnyIn(QUIET_WORDS, query_lower)
          /\ ~AnyIn(MODERN_WORDS, query_lower)
          => value["preferences"] = JList(<<>>)

\* C17: whenever the generation call fails or its reply holds no parseable JSON
\* object, the extraction returns the keyword-fallback record of the query (null
\* for every field without a signal, empty preference and amenity lists) and does
\* not raise.
C17_FailedExtractionFallsBackSilently ==
    NothingExtracted =>
        /\ ~fn.result.raised
        /\ fn.result = ExtractRequirementsFallback(fn.query, fn.properties)
        /\ NullWithoutSignal(fn.result.value, Lower(fn.query), fn.properties)

\* on listings whose suburbs are all strings the fallback does return its record
C17_FallbackOnStringSuburbs ==
    (NothingExtracted /\ \A i \in 1..Len(fn.properties) :
                            ~LocationIsNone(fn.properties[i], "suburb")) =>
        /\ ~fn.result.raised
        /\ fn.result = ExtractRequirementsFallback(fn.query, fn.properties)
        /\ NullWithoutSignal(fn.result.value, Lower(fn.query), fn.properties)

\* respond_and_recommend_properties answered "apartment in Westlands" over the
\* catalog [Karen house, Westlands apartment], the keywords of the query read by
\* the fallback
ScenarioTwo(t) ==
    /\ ret[t].kind = "recommend"
    /\ ret[t].failed = "none"
    /\ ret[t].query = REC_QUERY
    /\ Catalogs[catalog].listings = <<P_KAREN, P_WESTLANDS>>
    /\ ret[t].gen # "none"
    /\ NoParseableObject(ret[t].response_text)

\* C18: for the catalog [Karen house at 25000000, Westlands apartment at 8000000]
\* and the query "apartment in Westlands", extraction yields location "westlands"
\* and property type "apartment", the filter keeps only the Westlands apartment,
\* and the scorer ranks it first with location component 1.0 and type component
\* 1.0 before weighting (0.25 and 0.15 once weighted).
C18_ApartmentInWestlands ==
    \A t \in Tasks :
        ScenarioTwo(t) =>
            /\ ret[t].requirements["location"] = JStr(<<"w","e","s","t","l","a","n","d","s">>)
            /\ ret[t].requirements["property_type"] = JStr(<<"a","p","a","r","t","m","e","n","t">>)
            /\ Len(ret[t].filtered_props) = 1
            /\ ret[t].filtered_props[1].id = P_WESTLANDS.id
            /\ ret[t].filtered_props[1].price = 8000000
            /\ Len(ret[t].top_props) >= 1
            /\ ret[t].top_props[1].id = P_WESTLANDS.id
            /\ 4 * ret[t].top_props[1].score_breakdown.location = 1000
            /\ 20 * ret[t].top_props[1].score_breakdown.property_type = 3 * 1000
            /\ Len(ret[t].recommended_properties) >= 1
            /\ ret[t].recommended_properties[1].Title = P_WESTLANDS.title

C18_Witness ==
    \E t \in Tasks :
        /\ ScenarioTwo(t)
        /\ ret[t].gen = "error"
        /\ Len(ret[t].top_props) = 1
        /\ ret[t].top_props[1].id = "p2"

\* the generation call of an answer failed, and _generate_response came back
GenerationFailed ==
    /\ fn.op = "answer"
    /\ fn.pc # "generate"
    /\ fn.gen.kind = "error"

FIXED_MESSAGES == {MSG_AUTH, MSG_RATE, MSG_NETWORK, MSG_OTHER}

\* the category of each failure the HTTP call can end in
CategoryOf(error_text) ==
    CASE error_text \in {ERR_401, ERR_API_KEY} -> "auth"
      [] error_text \in {ERR_429, ERR_QUOTA} -> "rate-limit"
      [] error_text \in {ERR_CONNECT, ERR_NETWORK} -> "network"
      [] OTHER -> "other"

MessageOf(category) ==
    CASE category = "auth" -> MSG_AUTH
      [] category = "rate-limit" -> MSG_RATE
      [] category = "network" -> MSG_NETWORK
      [] OTHER -> MSG_OTHER

\* C19: a failed generation call is mapped by its category (auth, rate-limit,
\* network, other) to one of four distinct fixed messages; the text returned is
\* one of them, never holds the error text, and a 401 failure gives the
\* authentication message.
C19_FailureGivesFixedMessage ==
    GenerationFailed =>
        /\ Cardinality(FIXED_MESSAGES) = 4
        /\ fn.response \in FIXED_MESSAGES
        /\ fn.response = MessageOf(CategoryOf(fn.gen.text))
        /\ ~Contains(fn.gen.text, fn.response)
        /\ ~Contains(Lower(fn.gen.text), Lower(fn.response))
        /\ Contains(<<"4","0","1">>, fn.gen.text) => fn.response = MSG_AUTH

C19_Witness ==
    /\ GenerationFailed
    /\ fn.gen.text = ERR_401
    /\ fn.response = MSG_AUTH

\* the confidence came back for an answer
ConfidenceGiven == fn.op = "answer" /\ fn.pc = "done"

\* c is p/q rounded to the nearest integer (either neighbour at a tie), q > 0
IsRounded(c, p, q) == 2 * c * q - 2 * p <= q /\ 2 * p - 2 * c * q <= q

\* 100 * (0.5 * mean + 0.3 * min(len / 500, 1) + 0.2 * min(n / 5, 1)) as the
\* fraction <<p, q>>, sum being the sum of the n scores as a fraction
WeightedHundredths(sum, n, len) ==
    <<2500 * sum[1] + (3 * Min(len, 500) + 200 * Min(n, 5)) * sum[2] * n, 50 * sum[2] * n>>

\* C20: the confidence is within [0,1]; it is 0.3 when the search returned no
\* results, and otherwise 0.5*mean(scores) + 0.3*min(len(response)/500, 1) +
\* 0.2*min(resultCount/5, 1), capped at 1 and rounded to 2 decimals.
C20_ConfidenceFormula ==
    ConfidenceGiven =>
        /\ fn.confidence \in 0..100
        /\ fn.search_results = <<>> => fn.confidence = 30
        /\ fn.search_results # <<>> =>
              LET w == WeightedHundredths(SumScores(fn.search_results, 1),
                                          Len(fn.search_results), Len(fn.response))
              IN  IsRounded(fn.confidence, Min(w[1], 100 * w[2]), w[2])

\* five results, a response past 500 characters, and a mean below 1
C20_Witness ==
    /\ ConfidenceGiven
    /\ Len(fn.search_results) = 5
    /\ Len(fn.response) > 500
    /\ fn.confidence \in 71..99

\* process_query itself: every returned confidence is within [0,1], and 0.3 when
\* the search came back empty
ReturnedConfidence ==
    \A t \in Tasks :
        ret[t].kind = "chat" =>
            /\ ret[t].confidence \in 0..100
            /\ (ret[t].failed = "none" /\ ret[t].nresults = 0) => ret[t].confidence = 30

\* a turn of task t builds its prompt in this step
BuildsPrompt(t) == task[t].pc = "idle" /\ task'[t].pc = "generate"

\* C21: a session is NEW until its first turn completes and ACTIVE afterwards: a
\* turn is framed as the FIRST message iff no turn on its conversation id has
\* completed since the id was new or last cleared (log[c] holds the entries of
\* the turns completed since then), and as a FOLLOW-UP otherwise.
C21_FirstUntilATurnCompletes ==
    [][\A t \in Tasks :
          BuildsPrompt(t) =>
              (task'[t].prompt.is_first_message <=> log[task'[t].cid] = <<>>)]_vars

\* the framing does follow the stored history: FIRST iff the id has none
C21_FirstIffNothingStored ==
    [][\A t \in Tasks :
          BuildsPrompt(t) =>
              (task'[t].prompt.is_first_message <=> Stored(task'[t].cid) = <<>>)]_vars

\* C22: the prompt shows the most recent min(k, 4) exchanges of the conversation,
\* k the number of stored exchanges and an exchange one user+assistant pair (up
\* to 8 entries), in chronological order.
C22_PromptShowsLastFourExchanges ==
    \A t \in Tasks :
        task[t].pc = "generate" =>
            task[t].prompt.recent_history = LastN(lists[task[t].hist], 2 * 4)

\* what the prompt does show: the last 4 entries, two exchanges
C22_PromptShowsLastFourEntries ==
    \A t \in Tasks :
        task[t].pc = "generate" =>
            task[t].prompt.recent_history = LastN(lists[task[t].hist], 4)

\* a pass of the while loop of _split_text
SplitPasses == sp.pc = "loop" /\ sp'.pc = "loop" /\ sp.start < Len(sp.text)

\* C23: split terminates for every text and every pair chunk_size > 0,
\* overlap >= 0, overlap >= chunk_size included: the window start strictly
\* increases on every pass of the loop.
C23_WindowStartIncreases ==
    [][SplitPasses => sp'.start > sp.start]_vars

\* with the overlap below the window size every pass does advance the start
C23_StartIncreasesBelowWindow ==
    [][(SplitPasses /\ sp.overlap < sp.chunk_size) => sp'.start > sp.start]_vars

\* the slice index b of text lies between two adjacent word characters
MidWord(text, b) ==
    /\ b >= 1
    /\ b < Len(text)
    /\ IsWordChar(text[b])
    /\ IsWordChar(text[b + 1])

\* a pass of the loop is about to cut a chunk that is not empty
CutsChunk ==
    /\ sp.pc = "loop"
    /\ sp.start < Len(sp.text)
    /\ Strip(PySlice(sp.text, sp.start,
                     SplitEnd(sp.text, sp.chunk_size, sp.overlap, sp.start))) # <<>>

\* C24: no chunk boundary falls between two adjacent word characters of the text:
\* every chunk starts and ends at the start or end of the text, at whitespace, or
\* right after a sentence terminator, also when the backward window holds none.
C24_NoBoundaryInsideAWord ==
    CutsChunk =>
        /\ ~MidWord(sp.text, sp.start)
        /\ ~MidWord(sp.text, SplitEnd(sp.text, sp.chunk_size, sp.overlap, sp.start))

\* the location component the statement gives a listing, weighted by 0.25, in
\* thousandths; a suburb that is empty or missing matches nothing
StatedLocation(prop, requirements) ==
    LET req_loc == Lower(requirements["location"].v)
        suburb == Lower(LocationGet(prop, "suburb"))
        city == Lower(LocationGet(prop, "city"))
    IN  IF ~Truthy(requirements["location"]) THEN 125
        ELSE IF suburb # <<>> /\ req_loc = suburb THEN 250
        ELSE IF suburb # <<>> /\ (Contains(req_loc, suburb) \/ Contains(suburb, req_loc))
        THEN 200
        ELSE IF Contains(req_loc, city) THEN 125
        ELSE -50

\* C25: the location component is 1.0 when the required location equals the
\* suburb, 0.8 on a partial substring match in either direction, 0.5 when only
\* the city contains it, -0.2 for every listing (one with an empty or missing
\* suburb included) whose suburb and city do not match, and 0.5 when no location
\* is required.
C25_LocationComponent ==
    Scored =>
        \A i \in 1..Len(fn.result.value) :
            fn.result.value[i].score_breakdown.location
                = StatedLocation(fn.properties[i], fn.requirements)

\* for listings that name a suburb the component is the stated one
C25_LocationComponentOfNamedSuburbs ==
    Scored =>
        \A i \in 1..Len(fn.result.value) :
            LocationGet(fn.properties[i], "suburb") # <<>> =>
                fn.result.value[i].score_breakdown.location
                    = StatedLocation(fn.properties[i], fn.requirements)

\* respond_and_recommend_properties returned after its filter and its scorer ran
FilteredAndScored(t) ==
    /\ ret[t].kind = "recommend"
    /\ ret[t].failed \notin {"extraction", "filter", "scoring"}

ANNOTATION_KEYS == {"match_score", "score_breakdown"}

\* C26: scoring annotates a working copy only: after filter and score run, the
\* listing records of the catalog list as loaded carry no match_score or
\* score_breakdown field and are otherwise unchanged (the catalog file itself is
\* never written).
C26_LoadedListingsNotAnnotated ==
    \A t \in Tasks :
        FilteredAndScored(t) =>
            /\ ret[t].properties = ret[t].loaded_properties
            /\ \A i \in 1..Len(ret[t].properties) :
                  ANNOTATION_KEYS \subseteq ret[t].properties[i].missing

\* what does hold: the file is left alone, the list keeps its listings in place,
\* and the two fields are all that a listing gains
C26_OnlyTheTwoFieldsAdded ==
    /\ [][catalog' = catalog]_vars
    /\ [](\A t \in Tasks :
            FilteredAndScored(t) =>
                /\ Len(ret[t].properties) = Len(ret[t].loaded_properties)
                /\ \A i \in 1..Len(ret[t].properties) :
                      \A k \in DOMAIN ret[t].properties[i] \ (ANNOTATION_KEYS \cup {"missing"}) :
                          ret[t].properties[i][k] = ret[t].loaded_properties[i][k])

\* user, assistant, user, assistant, ...
AlternatesFromUser(h) ==
    /\ Len(h) % 2 = 0
    /\ \A i \in 1..Len(h) : h[i].role = (IF i % 2 = 1 THEN "user" ELSE "assistant")

\* the entries of a history taken two by two
PairsOf(h) == {<<h[2 * k - 1], h[2 * k]>> : k \in 1..(Len(h) \div 2)}

\* the turns suspended in generation on conversation c
Generating(c) == {t \in Tasks : task[t].pc = "generate" /\ task[t].cid = c}

\* the history lists of conversation c that something still refers to
HistoriesOf(c) == {Stored(c)} \cup {lists[task[t].hist] : t \in Generating(c)}

\* a query of a turn in generation on c, with a reply to it
TurnPairs(c) ==
    {Pair(task[t].query, GenerateResponse(g)) : t \in Generating(c), g \in GenOutcomes}

Completes(u) == task[u].pc = "generate" /\ task'[u].pc # "generate"

\* another turn wrote the history of u's conversation back after u read it: the
\* key no longer holds the list u read (nor was it removed). Both turns had
\* read before either wrote.
Overlapped(u) ==
    /\ task[u].cid \in AllConvIds
    /\ conversations[task[u].cid] \notin {0, task[u].hist}

\* the last two entries of a history
LastPair(h) == SubSeq(h, Len(h) - 1, Len(h))

\* C28: no lost update on a session: when two process_query turns on one
\* conversation id overlap (both read the history before either writes it
\* back), the history stored once both have completed holds the user and
\* assistant entries of both turns, whether the conversation was new or not.
C28_NoLostUpdate ==
    [][\A u \in Tasks :
          (Completes(u) /\ Overlapped(u)) =>
              \A c \in {task[u].cid} :
                  /\ LastPair(Stored(c)) \in PairsOf(Stored(c)')
                  /\ LastPair(Stored(c))'[1] = Entry("user", task[u].query)]_vars

\* the turn that completes last does write its own entries
C28_LastWriterKept ==
    [][\A u \in Tasks :
          (Completes(u) /\ Overlapped(u)) =>
              \A c \in {task[u].cid} :
                  LastPair(Stored(c))'[1] = Entry("user", task[u].query)]_vars

\* C29: after clear_conversation(c) returns, no entry that was in c's history
\* before the clear is ever in c's stored history again, even when a turn on c
\* was in flight when the clear ran: what is stored under c was recorded by
\* turns completed since c was last cleared (log[c] holds their entries).
C29_ClearedEntriesStayGone ==
    \A c \in AllConvIds : PairsOf(Stored(c)) \subseteq PairsOf(log[c])

\* what does hold: the clear itself leaves nothing stored under c
C29_ClearEmptiesTheHistory ==
    [][\A c \in AllConvIds :
          (conversations[c] # 0 /\ conversations'[c] = 0) => Stored(c)' = <<>>]_vars

\* the merged requirement record: a filter value that is not null overrides
\* the extracted one, a null one overrides nothing
StatedMerge(extracted, filters) ==
    [k \in ReqKeys |-> IF filters[k].t \in {"absent", "null"} THEN extracted[k]
                       ELSE filters[k]]

\* the hard constraints of a requirement record, for a listing that has every
\* field a recommendation shows
MeetsConstraints(prop, req) ==
    /\ Truthy(req["location"]) =>
          \/ Contains(Lower(req["location"].v), Lower(prop.location.suburb))
          \/ Contains(Lower(req["location"].v), Lower(prop.location.city))
    /\ Truthy(req["property_type"]) =>
          Contains(Lower(req["property_type"].v), Lower(prop.property_type))
    /\ ~IsNone(req["bedrooms"]) => prop.bedrooms >= NumberOf(req["bedrooms"])
    /\ ~IsNone(req["bathrooms"]) => prop.bathrooms >= NumberOf(req["bathrooms"])
    /\ ~IsNone(req["min_price"]) => prop.price >= NumberOf(req["min_price"])
    /\ ~IsNone(req["max_price"]) => prop.price <= NumberOf(req["max_price"])
    /\ ~IsNone(req["furnished"]) =>
          /\ IsNumber(req["furnished"])
          /\ (IF prop.furnished THEN 1 ELSE 0) = NumberOf(req["furnished"])

\* respond_and_recommend_properties returned its recommendations
Recommends(t) == ret[t].kind = "recommend" /\ ret[t].failed = "none"

====
